---- MODULE Spec2Model ----
(***************************************************************************)
(* Model of the agent gateway's two KrakenD HTTP plugins:                  *)
(*   - agentcard-rw : rewrites agent cards served at                       *)
(*                    <agent>/.well-known/agent-card.json                  *)
(*   - openai-a2a   : OpenAI-compatible bridge (/models,                   *)
(*                    /chat/completions)                                   *)
(* Strings are TLA+ strings handled character by character with SubSeq.    *)
(* JSON text is modelled by its syntax tree ("docs"), decoded Go values by *)
(* tagged records; json.Unmarshal and json.Marshal convert between them.   *)
(***************************************************************************)
EXTENDS Integers, Sequences, FiniteSets, TLC

(***************************************************************************)
(* Go string helpers (package strings)                                     *)
(***************************************************************************)
UpperChars == "ABCDEFGHIJKLMNOPQRSTUVWXYZ"

LowerChars == "abcdefghijklmnopqrstuvwxyz"

\* unicode.ToLower on one character of the modelled (ASCII) alphabet
LowerChar(c) ==
  IF \E i \in 1..Len(UpperChars) : SubSeq(UpperChars, i, i) = c
  THEN LET i == CHOOSE j \in 1..Len(UpperChars) : SubSeq(UpperChars, j, j) = c
       IN  SubSeq(LowerChars, i, i)
  ELSE c

RECURSIVE ToLower(_)
\* strings.ToLower
ToLower(s) ==
  IF Len(s) = 0 THEN ""
  ELSE LowerChar(SubSeq(s, 1, 1)) \o ToLower(SubSeq(s, 2, Len(s)))

\* strings.HasSuffix
HasSuffix(s, suffix) ==
  /\ Len(s) >= Len(suffix)
  /\ SubSeq(s, Len(s) - Len(suffix) + 1, Len(s)) = suffix

\* strings.Index: 0-based position of the first occurrence of sub, -1 if none
Index(s, sub) ==
  LET hits == {i \in 0..(Len(s) - Len(sub)) : SubSeq(s, i + 1, i + Len(sub)) = sub}
  IN  IF hits = {} THEN -1
      ELSE CHOOSE i \in hits : \A j \in hits : i <= j

\* strings.Contains
Contains(s, sub) == Index(s, sub) >= 0

\* strings.TrimSuffix
TrimSuffix(s, suffix) ==
  IF HasSuffix(s, suffix) THEN SubSeq(s, 1, Len(s) - Len(suffix)) ELSE s

(***************************************************************************)
(* Path classification (agentcard-rw/path_utils.go)                        *)
(***************************************************************************)
agentCardSuffix == "/.well-known/agent-card.json"

isAgentCardEndpoint(path) == HasSuffix(path, agentCardSuffix)

extractAgentPath(path) ==
  LET idx == Index(path, agentCardSuffix)
  IN  IF idx > 0 THEN SubSeq(path, 1, idx) ELSE ""

(***************************************************************************)
(* JSON documents (the text on the wire, by syntax tree) and Go values     *)
(* (what encoding/json decodes into interface{}).                          *)
(* An integer literal n is the pair <<hi, lo>> with n = hi * 2^27 + lo.    *)
(***************************************************************************)
Half == 2^27

JNull == [t |-> "jnull", v |-> 0]

JStr(s) == [t |-> "jstring", v |-> s]

JNum(hi, lo) == [t |-> "jnumber", v |-> <<hi, lo>>]

JBool(b) == [t |-> "jbool", v |-> b]

JArr(seq) == [t |-> "jarray", v |-> seq]

JObj(fields) == [t |-> "jobject", v |-> fields]

GNil == [t |-> "nil", v |-> 0]

GStr(s) == [t |-> "string", v |-> s]

GFloat(n) == [t |-> "float64", v |-> n]

GBool(b) == [t |-> "bool", v |-> b]

GSlice(seq) == [t |-> "slice", v |-> seq]

\* a nil []interface{} (var result []interface{})
GNilSlice == [t |-> "nilslice", v |-> <<>>]

GMap(fields) == [t |-> "map", v |-> fields]

\* a nil map[string]interface{} (var agentCardMap map[string]interface{})
GNilMap == [t |-> "nilmap", v |-> <<>>]

\* strconv.ParseFloat(literal, 64) for an integer literal below 2^54:
\* exact below 2^53, round-half-to-even to a multiple of 2 from 2^53 on
Float64Of(n) ==
  LET hi == n[1]
      lo == n[2]
  IN  IF hi < Half \div 2 \/ lo % 2 = 0 THEN n
      ELSE IF ((lo - 1) \div 2) % 2 = 0 THEN <<hi, lo - 1>>
      ELSE IF lo + 1 = Half THEN <<hi + 1, 0>>
      ELSE <<hi, lo + 1>>

RECURSIVE DecodeValue(_)
\* json.Unmarshal into an interface{}: objects become maps, arrays become
\* non-nil slices, numbers become float64, null becomes nil
DecodeValue(d) ==
  CASE d.t = "jnull"   -> GNil
    [] d.t = "jstring" -> GStr(d.v)
    [] d.t = "jnumber" -> GFloat(Float64Of(d.v))
    [] d.t = "jbool"   -> GBool(d.v)
    [] d.t = "jarray"  -> GSlice([i \in 1..Len(d.v) |-> DecodeValue(d.v[i])])
    [] d.t = "jobject" -> GMap([k \in DOMAIN d.v |-> DecodeValue(d.v[k])])

RECURSIVE EncodeValue(_)
\* json.Marshal of an interface{} value: nil, a nil slice and a nil map are
\* all encoded as null
EncodeValue(g) ==
  CASE g.t = "nil"      -> JNull
    [] g.t = "string"   -> JStr(g.v)
    [] g.t = "float64"  -> [t |-> "jnumber", v |-> g.v]
    [] g.t = "bool"     -> JBool(g.v)
    [] g.t = "slice"    -> JArr([i \in 1..Len(g.v) |-> EncodeValue(g.v[i])])
    [] g.t = "nilslice" -> JNull
    [] g.t = "map"      -> JObj([k \in DOMAIN g.v |-> EncodeValue(g.v[k])])
    [] g.t = "nilmap"   -> JNull

(***************************************************************************)
(* URL rewriting (agentcard-rw url replacer)                               *)
(***************************************************************************)
transportJSONRPC == "jsonrpc"

transportGRPC == "grpc"

transportHTTPJSON == "http+json"

\* the check of the earlier plugin version: http and https also accepted
isValidTransportLegacy(transport) ==
  LET normalized == ToLower(transport)
  IN  \/ normalized = transportJSONRPC
      \/ normalized = transportGRPC
      \/ normalized = transportHTTPJSON
      \/ transport = "http"
      \/ transport = "https"

isValidTransport(transport) ==
  LET normalized == ToLower(transport)
  IN  \/ normalized = transportJSONRPC
      \/ normalized = transportGRPC
      \/ normalized = transportHTTPJSON

constructExternalURL(gwURL, agPath) ==
  LET cleanGatewayURL == TrimSuffix(gwURL, "/")
      cleanAgentPath  == TrimSuffix(agPath, "/")
  IN  cleanGatewayURL \o cleanAgentPath

\* m is a map or a nil map; ok iff the key is present with a string value
safeGetString(m, key) == key \in DOMAIN m.v /\ m.v[key].t = "string"

\* ok iff the key is present with a []interface{} value
safeGetArray(m, key) == key \in DOMAIN m.v /\ m.v[key].t = "slice"

\* the fields of the typed AgentCard / AgentInterface structs
KnownFields ==
  {"name", "description", "url", "version", "additionalInterfaces", "provider", "transport"}

\* rebuilding the object from the typed fields only, as the struct-based rewrite did
MapSetTyped(m, key, val) ==
  GMap([k \in ((DOMAIN m.v) \cap KnownFields) \cup {key} |->
          IF k = key THEN val ELSE m.v[k]])

\* m[key] = val on a non-nil map
MapSet(m, key, val) ==
  GMap([k \in (DOMAIN m.v) \cup {key} |-> IF k = key THEN val ELSE m.v[k]])

\* inserting at the front instead of appending
GoPrepend(result, x) == GSlice(<<x>> \o result.v)

\* append(result, x): appending to a nil slice allocates a slice
GoAppend(result, x) == GSlice(Append(result.v, x))

RECURSIVE rewriteInterfacesLoop(_, _, _, _)
\* the for-range loop of rewriteAdditionalInterfacesMap from element i on
rewriteInterfacesLoop(interfaces, i, result, externalURL) ==
  IF i > Len(interfaces) THEN result
  ELSE LET iface == interfaces[i]
       IN  IF iface.t # "map"
           THEN rewriteInterfacesLoop(interfaces, i + 1, result, externalURL)
           ELSE IF ~safeGetString(iface, "transport")
           THEN rewriteInterfacesLoop(interfaces, i + 1, result, externalURL)
           ELSE IF isValidTransport(iface.v["transport"].v)
           THEN LET ifaceMap == IF safeGetString(iface, "url")
                                THEN MapSet(iface, "url", GStr(externalURL))
                                ELSE iface
                IN  rewriteInterfacesLoop(interfaces, i + 1,
                                          GoAppend(result, ifaceMap), externalURL)
           ELSE rewriteInterfacesLoop(interfaces, i + 1, result, externalURL)

\* interfaces is the sequence held by the slice; the result is a Go slice value
rewriteAdditionalInterfacesMap(interfaces, gwURL, agPath) ==
  rewriteInterfacesLoop(interfaces, 1, GNilSlice,
                        constructExternalURL(gwURL, agPath))

\* the earlier plugin version: only cluster-internal URLs are rewritten
isInternalURL(url) == Contains(url, ".svc.cluster.local")

rewriteAgentCardMapInternalOnly(cardMap, gwURL, agPath) ==
  LET externalURL == constructExternalURL(gwURL, agPath)
      c1 == IF safeGetString(cardMap, "url") /\ isInternalURL(cardMap.v["url"].v)
            THEN MapSet(cardMap, "url", GStr(externalURL))
            ELSE cardMap
  IN  IF safeGetArray(c1, "additionalInterfaces")
      THEN MapSet(c1, "additionalInterfaces",
                  rewriteAdditionalInterfacesMap(c1.v["additionalInterfaces"].v,
                                                 gwURL, agPath))
      ELSE c1

rewriteAgentCardMap(cardMap, gwURL, agPath) ==
  LET externalURL == constructExternalURL(gwURL, agPath)
      c1 == IF safeGetString(cardMap, "url")
            THEN MapSet(cardMap, "url", GStr(externalURL))
            ELSE cardMap
  IN  IF safeGetArray(c1, "additionalInterfaces")
      THEN MapSet(c1, "additionalInterfaces",
                  rewriteAdditionalInterfacesMap(c1.v["additionalInterfaces"].v,
                                                 gwURL, agPath))
      ELSE c1

(***************************************************************************)
(* openai-a2a: model router (resolveAgentBackend)                          *)
(***************************************************************************)
Digits == "0123456789"

RECURSIVE Itoa(_)
\* fmt.Sprintf("%d", n) for n >= 0
Itoa(n) ==
  IF n < 10 THEN SubSeq(Digits, n + 1, n + 1)
  ELSE Itoa(n \div 10) \o SubSeq(Digits, (n % 10) + 1, (n % 10) + 1)

\* strings.ContainsAny
ContainsAny(s, chars) ==
  \E i \in 1..Len(s), j \in 1..Len(chars) : SubSeq(s, i, i) = SubSeq(chars, j, j)

\* strings.HasPrefix
HasPrefix(s, prefix) ==
  /\ Len(s) >= Len(prefix)
  /\ SubSeq(s, 1, Len(prefix)) = prefix

\* strings.LastIndex for a one-character sub: 0-based, -1 if none
LastIndex(s, sub) ==
  LET hits == {i \in 0..(Len(s) - 1) : SubSeq(s, i + 1, i + 1) = sub}
  IN  IF hits = {} THEN -1
      ELSE CHOOSE i \in hits : \A j \in hits : i >= j

\* the part of s before the first sep (all of s when there is none)
CutBefore(s, sep) ==
  LET i == Index(s, sep)
  IN  IF i < 0 THEN s ELSE SubSeq(s, 1, i)

\* 'a' <= c <= 'z' || 'A' <= c <= 'Z'
Letters ==
  {SubSeq(LowerChars, i, i) : i \in 1..Len(LowerChars)}
    \cup {SubSeq(UpperChars, i, i) : i \in 1..Len(UpperChars)}

\* '0' <= c <= '9'
DigitChars == {SubSeq(Digits, i, i) : i \in 1..Len(Digits)}

RECURSIVE getSchemeFrom(_, _)
\* net/url getScheme from character i on: the scheme before the first ':' when
\* it starts with a letter and holds only letters, digits, '+', '-', '.';
\* a ':' in first position is an error
getSchemeFrom(rawURL, i) ==
  IF i > Len(rawURL) THEN [err |-> FALSE, scheme |-> "", rest |-> rawURL]
  ELSE LET c == SubSeq(rawURL, i, i)
       IN  IF c \in Letters THEN getSchemeFrom(rawURL, i + 1)
           ELSE IF c \in DigitChars \/ c \in {"+", "-", "."}
           THEN IF i = 1 THEN [err |-> FALSE, scheme |-> "", rest |-> rawURL]
                ELSE getSchemeFrom(rawURL, i + 1)
           ELSE IF c = ":"
           THEN IF i = 1 THEN [err |-> TRUE, scheme |-> "", rest |-> rawURL]
                ELSE [err |-> FALSE, scheme |-> SubSeq(rawURL, 1, i - 1),
                      rest |-> SubSeq(rawURL, i + 1, Len(rawURL))]
           ELSE [err |-> FALSE, scheme |-> "", rest |-> rawURL]

\* net/url validOptionalPort: "" or ':' followed by digits only
validOptionalPort(port) ==
  \/ port = ""
  \/ /\ SubSeq(port, 1, 1) = ":"
     /\ \A i \in 2..Len(port) : SubSeq(port, i, i) \in DigitChars

\* net/url parseAuthority / parseHost: user information dropped, an opening
\* '[' needs its ']', and what follows the last ':' must be a port
parseHost(authority) ==
  LET at   == LastIndex(authority, "@")
      host == IF at < 0 THEN authority ELSE SubSeq(authority, at + 2, Len(authority))
      col  == LastIndex(host, ":")
  IN  IF HasPrefix(host, "[")
      THEN LET close == LastIndex(host, "]")
           IN  IF close < 0 THEN [err |-> TRUE, host |-> ""]
               ELSE IF ~validOptionalPort(SubSeq(host, close + 2, Len(host)))
               THEN [err |-> TRUE, host |-> ""]
               ELSE [err |-> FALSE, host |-> host]
      ELSE IF col >= 0 /\ ~validOptionalPort(SubSeq(host, col + 1, Len(host)))
      THEN [err |-> TRUE, host |-> ""]
      ELSE [err |-> FALSE, host |-> host]

\* url.Parse(agent.URL), for URLs without control characters and percent
\* escapes: fragment and query cut off, scheme, then opaque / relative /
\* authority forms; Scheme is lower-cased
urlParse(rawURL) ==
  LET u  == CutBefore(rawURL, "#")
      gs == getSchemeFrom(u, 1)
      rest == CutBefore(gs.rest, "?")
      Failed == [err |-> TRUE, Scheme |-> "", Host |-> ""]
  IN  IF gs.err THEN Failed
      ELSE IF ~HasPrefix(rest, "/") /\ gs.scheme # ""
      THEN [err |-> FALSE, Scheme |-> ToLower(gs.scheme), Host |-> ""]
      ELSE IF ~HasPrefix(rest, "/") /\ Contains(CutBefore(rest, "/"), ":")
      THEN Failed
      ELSE IF HasPrefix(rest, "//") /\ (gs.scheme # "" \/ ~HasPrefix(rest, "///"))
      THEN LET authority == CutBefore(SubSeq(rest, 3, Len(rest)), "/")
               h == parseHost(authority)
           IN  IF h.err THEN Failed
               ELSE [err |-> FALSE, Scheme |-> ToLower(gs.scheme), Host |-> h.host]
      ELSE [err |-> FALSE, Scheme |-> ToLower(gs.scheme), Host |-> ""]

\* &AgentResolutionError{Type, ClientMsg} (InternalMsg is only logged)
AgentResolutionError(type, clientMsg) ==
  [ok |-> FALSE, Type |-> type, ClientMsg |-> clientMsg,
   info |-> [ModelID |-> "", Path |-> "", URL |-> ""]]

\* modelInfo, err before resolveAgentBackend is called
NoResolution == AgentResolutionError("", "")

RECURSIVE resolveLoopLastMatch(_, _, _)
\* the loop with the last matching entry deciding instead of the first
resolveLoopLastMatch(model, registry, i) ==
  IF i > Len(registry)
  THEN AgentResolutionError("not_found", "model not found")
  ELSE LET agent == registry[i]
           later == resolveLoopLastMatch(model, registry, i + 1)
       IN  IF agent.ModelID = model /\ later.Type = "not_found"
           THEN IF agent.URL = "" \/ urlParse(agent.URL).err
                THEN AgentResolutionError("configuration_error", "model is not available")
                ELSE [ok |-> TRUE, Type |-> "", ClientMsg |-> "",
                      info |-> [ModelID |-> model, Path |-> "/" \o model,
                                URL |-> urlParse(agent.URL).Scheme \o "://"
                                          \o urlParse(agent.URL).Host]]
           ELSE later

RECURSIVE resolveLoop(_, _, _)
\* for _, agent := range agents, from entry i on
resolveLoop(model, registry, i) ==
  IF i > Len(registry)
  THEN AgentResolutionError("not_found", "model not found")
  ELSE LET agent == registry[i]
       IN  IF agent.ModelID = model
           THEN IF agent.URL = ""
                THEN AgentResolutionError("configuration_error", "model is not available")
                ELSE LET parsedURL == urlParse(agent.URL)
                     IN  IF parsedURL.err
                         THEN AgentResolutionError("configuration_error",
                                                   "model is not available")
                         ELSE [ok |-> TRUE, Type |-> "", ClientMsg |-> "",
                               info |-> [ModelID |-> model, Path |-> "/" \o model,
                                         URL |-> parsedURL.Scheme \o "://"
                                                   \o parsedURL.Host]]
           ELSE resolveLoop(model, registry, i + 1)

resolveAgentBackend(model, registry) ==
  IF model = ""
  THEN AgentResolutionError("invalid_format", "model parameter is required")
  ELSE IF Contains(model, "..")
  THEN AgentResolutionError("invalid_format", "invalid model parameter format")
  ELSE IF ContainsAny(model, "?#[]@!$&'()*+,;=")
  THEN AgentResolutionError("invalid_format", "invalid model parameter format")
  ELSE resolveLoop(model, registry, 1)

(***************************************************************************)
(* openai-a2a: the OpenAI request, the A2A request and their JSON forms    *)
(***************************************************************************)
\* the value of the field a struct field tagged name decodes from: the exact
\* key, else a key that matches case-insensitively, else absent
FieldOf(d, name) ==
  IF name \in DOMAIN d.v THEN d.v[name]
  ELSE IF \E k \in DOMAIN d.v : Len(k) = Len(name) /\ ToLower(k) = name
  THEN d.v[CHOOSE k \in DOMAIN d.v : Len(k) = Len(name) /\ ToLower(k) = name]
  ELSE [t |-> "absent", v |-> 0]

\* a string field: absent and null leave "", a string sets it, the rest fails
DecodeString(d) ==
  CASE d.t \in {"absent", "jnull"} -> [ok |-> TRUE, val |-> ""]
    [] d.t = "jstring"             -> [ok |-> TRUE, val |-> d.v]
    [] OTHER                       -> [ok |-> FALSE, val |-> ""]

\* a bool field
DecodeBool(d) ==
  CASE d.t \in {"absent", "jnull"} -> [ok |-> TRUE, val |-> FALSE]
    [] d.t = "jbool"               -> [ok |-> TRUE, val |-> d.v]
    [] OTHER                       -> [ok |-> FALSE, val |-> FALSE]

\* models.OpenAIMessage from an array element
DecodeMessage(d) ==
  CASE d.t = "jnull"   -> [ok |-> TRUE, val |-> [Role |-> "", Content |-> ""]]
    [] d.t = "jobject" ->
         LET r == DecodeString(FieldOf(d, "role"))
             c == DecodeString(FieldOf(d, "content"))
         IN  [ok |-> r.ok /\ c.ok, val |-> [Role |-> r.val, Content |-> c.val]]
    [] OTHER           -> [ok |-> FALSE, val |-> [Role |-> "", Content |-> ""]]

\* []models.OpenAIMessage
DecodeMessages(d) ==
  CASE d.t \in {"absent", "jnull"} -> [ok |-> TRUE, val |-> <<>>]
    [] d.t = "jarray" ->
         [ok  |-> \A i \in 1..Len(d.v) : DecodeMessage(d.v[i]).ok,
          val |-> [i \in 1..Len(d.v) |-> DecodeMessage(d.v[i]).val]]
    [] OTHER -> [ok |-> FALSE, val |-> <<>>]

\* the zero models.OpenAIRequest
ZeroOpenAIRequest == [Model |-> "", Messages |-> <<>>, Stream |-> FALSE]

\* var openAIReq models.OpenAIRequest; json.Unmarshal(bodyBytes, &openAIReq):
\* the literal null is accepted and leaves the zero request
UnmarshalOpenAIRequest(body) ==
  IF Len(body) # 1 THEN [ok |-> FALSE, val |-> ZeroOpenAIRequest]
  ELSE LET d == body[1]
       IN  CASE d.t = "jnull"   -> [ok |-> TRUE, val |-> ZeroOpenAIRequest]
             [] d.t = "jobject" ->
                  LET m  == DecodeString(FieldOf(d, "model"))
                      ms == DecodeMessages(FieldOf(d, "messages"))
                      st == DecodeBool(FieldOf(d, "stream"))
                      tp == FieldOf(d, "temperature")
                  IN  [ok  |-> /\ m.ok
                               /\ ms.ok
                               /\ st.ok
                               /\ tp.t \in {"absent", "jnull", "jnumber"},
                       val |-> [Model |-> m.val, Messages |-> ms.val,
                                Stream |-> st.val]]
             [] OTHER -> [ok |-> FALSE, val |-> ZeroOpenAIRequest]

NoA2ARequest == [Jsonrpc |-> "", Id |-> 0, Method |-> "", Params |-> <<>>]

\* the message mapped is the first one
transformOpenAIToA2AFirst(openAIRequest, conversationId, messageID) ==
  LET numMessages == Len(openAIRequest.Messages)
  IN  IF numMessages = 0 THEN [err |-> TRUE, val |-> NoA2ARequest]
      ELSE LET lastMsg == openAIRequest.Messages[1]
               message == [Kind |-> "message", MessageId |-> messageID,
                           ContextId |-> conversationId, Role |-> "user",
                           Parts |-> <<[Kind |-> "text", Text |-> lastMsg.Content]>>]
           IN  [err |-> FALSE,
                val |-> [Jsonrpc |-> "2.0", Id |-> 1, Method |-> "message/send",
                         Params |-> [Message |-> message, Metadata |-> GMap(<<>>)]]]

\* messageID stands for uuid.New().String()
transformOpenAIToA2A(openAIRequest, conversationId, messageID) ==
  LET numMessages == Len(openAIRequest.Messages)
  IN  IF numMessages = 0 THEN [err |-> TRUE, val |-> NoA2ARequest]
      ELSE LET lastMsg == openAIRequest.Messages[numMessages]
               message == [Kind |-> "message", MessageId |-> messageID,
                           ContextId |-> conversationId, Role |-> "user",
                           Parts |-> <<[Kind |-> "text", Text |-> lastMsg.Content]>>]
           IN  [err |-> FALSE,
                val |-> [Jsonrpc |-> "2.0", Id |-> 1, Method |-> "message/send",
                         Params |-> [Message |-> message, Metadata |-> GMap(<<>>)]]]

\* a non-negative int as a JSON number
JInt(n) == JNum(n \div Half, n % Half)

\* json.Marshal(a2aReq): the JSON-RPC envelope of the A2A message/send request
MarshalA2ARequest(r) ==
  LET msg == r.Params.Message
  IN  JObj([jsonrpc |-> JStr(r.Jsonrpc),
            id      |-> JInt(r.Id),
            method  |-> JStr(r.Method),
            params  |->
              JObj([message |->
                      JObj([kind |-> JStr(msg.Kind),
                            messageId |-> JStr(msg.MessageId),
                            contextId |-> JStr(msg.ContextId),
                            role |-> JStr(msg.Role),
                            parts |-> JArr([i \in 1..Len(msg.Parts) |->
                                              JObj([kind |-> JStr(msg.Parts[i].Kind),
                                                    text |-> JStr(msg.Parts[i].Text)])])]),
                    metadata |-> EncodeValue(r.Params.Metadata)])])

RECURSIVE SumOver(_, _)
\* the sum of f over a finite set
SumOver(S, f) ==
  IF S = {} THEN 0
  ELSE LET x == CHOOSE y \in S : TRUE
       IN  f[x] + SumOver(S \ {x}, f)

RECURSIVE JSONLen(_)
\* len() of the compact JSON text json.Marshal writes for a document whose
\* strings need no escaping
JSONLen(d) ==
  CASE d.t = "jnull"   -> 4
    [] d.t = "jbool"   -> IF d.v THEN 4 ELSE 5
    [] d.t = "jstring" -> Len(d.v) + 2
    [] d.t = "jnumber" -> Len(Itoa(d.v[1] * Half + d.v[2]))
    [] d.t = "jarray"  ->
         LET n == Len(d.v)
         IN  2 + SumOver(1..n, [i \in 1..n |-> JSONLen(d.v[i])])
               + (IF n = 0 THEN 0 ELSE n - 1)
    [] d.t = "jobject" ->
         LET keys == DOMAIN d.v
             n == Cardinality(keys)
         IN  2 + SumOver(keys, [k \in keys |-> Len(k) + 3 + JSONLen(d.v[k])])
               + (IF n = 0 THEN 0 ELSE n - 1)

\* len(bytes) of a body
BodyLen(body) ==
  SumOver(1..Len(body),
          [i \in 1..Len(body) |->
             IF body[i].t = "text" THEN Len(body[i].v) ELSE JSONLen(body[i])])

(***************************************************************************)
(* openai-a2a: the A2A response and transformA2AToOpenAI                   *)
(***************************************************************************)
\* a []interface{} field of the response: absent and null leave it empty
DecodeList(d) ==
  CASE d.t \in {"absent", "jnull"} -> [ok |-> TRUE, val |-> <<>>]
    [] d.t = "jarray" ->
         [ok |-> TRUE, val |-> [i \in 1..Len(d.v) |-> DecodeValue(d.v[i])]]
    [] OTHER -> [ok |-> FALSE, val |-> <<>>]

\* models.Artifact: its parts
DecodeArtifact(d) ==
  IF d.t # "jobject" THEN [ok |-> FALSE, val |-> [Parts |-> <<>>]]
  ELSE LET ps == DecodeList(FieldOf(d, "parts"))
       IN  [ok |-> ps.ok, val |-> [Parts |-> ps.val]]

\* models.Message of the history: its role and parts
DecodeHistoryMessage(d) ==
  IF d.t # "jobject" THEN [ok |-> FALSE, val |-> [Role |-> "", Parts |-> <<>>]]
  ELSE LET r  == DecodeString(FieldOf(d, "role"))
           ps == DecodeList(FieldOf(d, "parts"))
       IN  [ok |-> r.ok /\ ps.ok, val |-> [Role |-> r.val, Parts |-> ps.val]]

ZeroA2AResponse == [Result |-> [Artifacts |-> <<>>, History |-> <<>>]]

\* var a2aResp models.SendMessageSuccessResponse;
\* json.Unmarshal(rw.body.Bytes(), &a2aResp)
UnmarshalA2AResponse(body) ==
  IF Len(body) # 1 \/ body[1].t # "jobject"
  THEN [ok |-> FALSE, val |-> ZeroA2AResponse]
  ELSE LET res == FieldOf(body[1], "result")
       IN  IF res.t # "jobject" THEN [ok |-> FALSE, val |-> ZeroA2AResponse]
           ELSE LET as == FieldOf(res, "artifacts")
                    hs == FieldOf(res, "history")
                IN  IF /\ as.t \in {"absent", "jnull", "jarray"}
                       /\ hs.t \in {"absent", "jnull", "jarray"}
                       /\ as.t = "jarray" =>
                            \A i \in 1..Len(as.v) : DecodeArtifact(as.v[i]).ok
                       /\ hs.t = "jarray" =>
                            \A i \in 1..Len(hs.v) : DecodeHistoryMessage(hs.v[i]).ok
                    THEN [ok |-> TRUE,
                          val |-> [Result |->
                            [Artifacts |->
                               IF as.t = "jarray"
                               THEN [i \in 1..Len(as.v) |-> DecodeArtifact(as.v[i]).val]
                               ELSE <<>>,
                             History |->
                               IF hs.t = "jarray"
                               THEN [i \in 1..Len(hs.v) |-> DecodeHistoryMessage(hs.v[i]).val]
                               ELSE <<>>]]]
                    ELSE [ok |-> FALSE, val |-> ZeroA2AResponse]

\* what one part adds to content: a models.TextPart or a decoded map of kind
\* "text" with a string text
partText(part) ==
  IF part.t = "TextPart" THEN part.v.Text
  ELSE IF /\ part.t = "map"
          /\ "kind" \in DOMAIN part.v
          /\ part.v["kind"] = GStr("text")
          /\ "text" \in DOMAIN part.v
          /\ part.v["text"].t = "string"
  THEN part.v["text"].v
  ELSE ""

RECURSIVE partsText(_, _)
\* for _, part := range parts, from part i on
partsText(parts, i) ==
  IF i > Len(parts) THEN ""
  ELSE partText(parts[i]) \o partsText(parts, i + 1)

RECURSIVE artifactsText(_, _)
\* for _, artifact := range a2aResp.Result.Artifacts, from artifact i on
artifactsText(artifacts, i) ==
  IF i > Len(artifacts) THEN ""
  ELSE partsText(artifacts[i].Parts, 1) \o artifactsText(artifacts, i + 1)

RECURSIVE historyText(_, _)
\* for i := len(History) - 1; i >= 0; i--: the first agent message, from the
\* end, that has text
historyText(history, i) ==
  IF i < 1 THEN ""
  ELSE IF history[i].Role = "agent" /\ partsText(history[i].Parts, 1) # ""
  THEN partsText(history[i].Parts, 1)
  ELSE historyText(history, i - 1)

\* id stands for uuid.New().String(), created for time.Now().Unix()
transformA2AToOpenAI(a2aResp, originalReq, id, created) ==
  LET fromArtifacts == artifactsText(a2aResp.Result.Artifacts, 1)
      content == IF fromArtifacts # "" THEN fromArtifacts
                 ELSE historyText(a2aResp.Result.History, Len(a2aResp.Result.History))
  IN  [ID |-> id, Object |-> "chat.completion", Created |-> created,
       Model |-> originalReq.Model,
       Choices |-> <<[Index |-> 0,
                      Message |-> [Role |-> "assistant", Content |-> content],
                      FinishReason |-> "stop"]>>]

\* json.Marshal(openAIResp)
MarshalOpenAIResponse(r) ==
  JObj([id |-> JStr(r.ID), object |-> JStr(r.Object), created |-> JInt(r.Created),
        model |-> JStr(r.Model),
        choices |-> JArr([i \in 1..Len(r.Choices) |->
                            JObj([index |-> JInt(r.Choices[i].Index),
                                  message |->
                                    JObj([role |-> JStr(r.Choices[i].Message.Role),
                                          content |-> JStr(r.Choices[i].Message.Content)]),
                                  finish_reason |-> JStr(r.Choices[i].FinishReason)])])])

\* the listing in reverse registry order
MarshalModelsResponseReversed(registry) ==
  JObj([object |-> JStr("list"),
        data |-> JArr([i \in 1..Len(registry) |->
                         LET agent == registry[Len(registry) + 1 - i]
                         IN  JObj([id |-> JStr(agent.ModelID),
                                   object |-> JStr("model"),
                                   created |-> JInt(agent.CreatedAt),
                                   owned_by |-> JStr(agent.OwnedBy)])])])

\* the response body of handleModelsRequest: one entry per agent, in order
MarshalModelsResponse(registry) ==
  JObj([object |-> JStr("list"),
        data |-> JArr([i \in 1..Len(registry) |->
                         JObj([id |-> JStr(registry[i].ModelID),
                               object |-> JStr("model"),
                               created |-> JInt(registry[i].CreatedAt),
                               owned_by |-> JStr(registry[i].OwnedBy)])])])

(***************************************************************************)
(* State                                                                   *)
(***************************************************************************)
VARIABLES
  cardStage,  \* rewrite pipeline applied to one body: input/decoded/rewritten/encoded
  cardDoc,    \* the JSON document of the downstream card
  gatewayURL, \* gatewayURL argument of the rewrite
  agentPath,  \* agentPath argument of the rewrite
  cardIn,     \* the decoded card map before the rewrite
  cardOut,    \* the card map after the rewrite
  cardEnc,    \* the re-serialized card document
  plugin,     \* which plugin's handler serves the request in flight
  req,        \* the request in flight (the handlers' *http.Request)
  received,   \* the request in flight as the host handed it over
  pc,         \* position of the handler: idle/downstream/captured/done
  target,     \* the writer handed to the downstream handler: none/sink/rw
  rw,         \* the capturing responseWriter
  sink,       \* the real http.ResponseWriter
  header,     \* the header map of the real writer (rw.Header() is the same map)
  down,       \* what the downstream handler has done so far
  downCalls,  \* number of handler.ServeHTTP invocations
  downReq,    \* the request the downstream handler was invoked with
  agents,     \* cfg.Agents of the openai-a2a handler serving the request
  clock,      \* the latest value time.Now() has returned
  generated,  \* the conversation ids generated so far, one per request that had none
  served,     \* number of requests answered so far
  openAIReq,  \* the decoded OpenAI request of the request in flight
  a2aReq,     \* the A2A request built for the request in flight
  resolution, \* modelInfo, err of resolveAgentBackend for the request in flight
  fnStage,    \* bridge functions applied to one input: input/resolved/transformed
  fnIn,       \* the input: model, registry, OpenAI request, conversation id
  fnOut       \* the results: resolution and transformation

cardVars == <<cardStage, cardDoc, gatewayURL, agentPath, cardIn, cardOut, cardEnc>>

httpVars == <<plugin, req, received, pc, target, rw, sink, header, down, downCalls, downReq>>

bridgeVars == <<agents, clock, generated, served, openAIReq, a2aReq, resolution>>

fnVars == <<fnStage, fnIn, fnOut>>

vars == <<cardStage, cardDoc, gatewayURL, agentPath, cardIn, cardOut, cardEnc,
          plugin, req, received, pc, target, rw, sink, header, down, downCalls,
          downReq, agents, clock, generated, served, openAIReq, a2aReq, resolution,
          fnStage, fnIn, fnOut>>

(***************************************************************************)
(* Input domains                                                           *)
(***************************************************************************)
MaxIfaces == 2

Absent == [t |-> "absent", v |-> 0]

\* 2^53 + 1 and 2^53 + 3, the first integers float64 cannot hold
Opt(key, d) == IF d = Absent THEN <<>> ELSE key :> d

CardDocOf(u, ai, rest) ==
  JObj(Opt("url", u) @@ Opt("additionalInterfaces", ai) @@ rest)

CardDocs ==
  LET BigOdd1 == JNum(Half \div 2, 1)
      BigOdd3 == JNum(Half \div 2, 3)
      IfaceDocs ==
        { JStr("not-an-object"),
          JObj([url |-> JStr("http://internal:1/")]),
          JObj([transport |-> JNum(0, 7), url |-> JStr("http://internal:2/")]),
          JObj([transport |-> JStr("JSONRPC"), url |-> JStr("http://internal:3/"),
                customField |-> JStr("keep-me")]),
          JObj([transport |-> JStr("Http+Json"), url |-> JNum(0, 42),
                tags |-> JArr(<<JStr("a"), BigOdd1>>)]),
          JObj([transport |-> JStr("grpc")]),
          JObj([transport |-> JStr("http"), url |-> JStr("http://internal:4/")]),
          JObj([transport |-> JStr("websocket"), url |-> JStr("http://internal:5/")]) }
      IfaceSeqs == UNION {[1..n -> IfaceDocs] : n \in 0..MaxIfaces}
      UrlDocs == {Absent, JStr("http://localhost:8000/"), JNum(0, 42), JNull}
      InterfacesDocs ==
        {Absent, JStr("none"), JObj([transport |-> JStr("JSONRPC")])}
          \cup {JArr(q) : q \in IfaceSeqs}
      RestDocs ==
        { <<>>,
          [provider |-> JObj([organization |-> JStr("QAware"),
                              url |-> JStr("https://qaware.de")]),
           xcustom  |-> JObj([vendor |-> JStr("ACME"),
                              ids |-> JArr(<<JNum(0, 1), BigOdd3>>)])] }
  IN  {CardDocOf(u, ai, rest) : u \in UrlDocs, ai \in InterfacesDocs, rest \in RestDocs}

(***************************************************************************)
(* json.Unmarshal(body, &agentCardMap) and json.Marshal(agentCardMap)      *)
(* A body is the sequence of chunks written; a chunk is a JSON document or *)
(* raw text [t |-> "text"].  No chunk is empty or blank, so two chunks in  *)
(* a row never form one JSON value.                                        *)
(***************************************************************************)
TextChunk(s) == [t |-> "text", v |-> s]

\* var agentCardMap map[string]interface{}; json.Unmarshal(body, &agentCardMap):
\* the literal null is accepted and leaves the map nil
UnmarshalCard(body) ==
  IF Len(body) # 1 THEN [ok |-> FALSE, m |-> GNilMap]
  ELSE LET d == body[1]
       IN  CASE d.t = "jobject" -> [ok |-> TRUE, m |-> DecodeValue(d)]
             [] d.t = "jnull"   -> [ok |-> TRUE, m |-> GNilMap]
             [] OTHER           -> [ok |-> FALSE, m |-> GNilMap]

MarshalCard(m) == EncodeValue(m)

(***************************************************************************)
(* http.ResponseWriter, the capturing responseWriter and http.Error        *)
(***************************************************************************)
\* a request: method, URL path, Host, the X-Forwarded-Proto, X-Conversation-ID,
\* Content-Type and Content-Length headers, the ContentLength field and the
\* body (chunks, as for responses)
NoRequest ==
  [method |-> "", path |-> "", host |-> "", proto |-> "", cid |-> "",
   contentType |-> "", hdrContentLength |-> "", contentLength |-> 0, body |-> <<>>]

HeaderNames == {"Content-Type", "Content-Length", "X-Content-Type-Options"}

\* an empty http.Header: no value under any name
NoHeaders == [h \in HeaderNames |-> <<>>]

\* http.Header.Get: the first value, "" when there is none
HeaderGet(h, name) == IF h[name] = <<>> THEN "" ELSE h[name][1]

\* http.Header.Set: the name holds this one value
HeaderSet(h, name, val) == [h EXCEPT ![name] = <<val>>]

\* http.Header.Del
HeaderDel(h, name) == [h EXCEPT ![name] = <<>>]

\* the real writer before anything was written
NewSink == [wroteHeader |-> FALSE, status |-> 0, body |-> <<>>]

\* http.ResponseWriter.WriteHeader: only the first call sets the status
SinkWriteHeader(s, code) ==
  IF s.wroteHeader THEN s
  ELSE [s EXCEPT !.wroteHeader = TRUE, !.status = code]

\* http.ResponseWriter.Write: a write before WriteHeader sends status 200
SinkWrite(s, chunk) ==
  LET s1 == SinkWriteHeader(s, 200)
  IN  [s1 EXCEPT !.body = Append(@, chunk)]

\* a capturing writer whose status starts at zero
newResponseWriterZeroStatus == [statusCode |-> 0, body |-> <<>>]

\* newResponseWriter: empty buffer, status 200
newResponseWriter == [statusCode |-> 200, body |-> <<>>]

\* responseWriter.WriteHeader: records the status, forwards nothing
CaptureWriteHeader(w, code) == [w EXCEPT !.statusCode = code]

\* responseWriter.Write: buffers the bytes, forwards nothing
CaptureWrite(w, chunk) == [w EXCEPT !.body = Append(@, chunk)]

\* the header changes of http.Error(w, msg, code)
ErrorHeaders(h) ==
  HeaderSet(HeaderSet(HeaderDel(h, "Content-Length"),
                      "Content-Type", "text/plain; charset=utf-8"),
            "X-Content-Type-Options", "nosniff")

\* the writes of http.Error(w, msg, code): WriteHeader(code), Fprintln(w, msg)
ErrorSink(s, msg, code) == SinkWrite(SinkWriteHeader(s, code), TextChunk(msg \o "\n"))

(***************************************************************************)
(* The rewrite pipeline on one card: decode, rewrite, encode               *)
(***************************************************************************)
InitHttp ==
  /\ plugin = "none"
  /\ req = NoRequest
  /\ received = NoRequest
  /\ pc = "idle"
  /\ target = "none"
  /\ rw = [statusCode |-> 0, body |-> <<>>]
  /\ sink = NewSink
  /\ header = NoHeaders
  /\ down = [hdrSet |-> FALSE, whCalls |-> 0, ct |-> "", resp |-> NewSink]
  /\ downCalls = 0
  /\ downReq = NoRequest

\* no bridge request in flight, nothing generated yet
InitBridge ==
  /\ agents = <<>>
  /\ clock = 1
  /\ generated = <<>>
  /\ served = 0
  /\ openAIReq = ZeroOpenAIRequest
  /\ a2aReq = NoA2ARequest
  /\ resolution = NoResolution

NoFnOutput == [resolved |-> AgentResolutionError("", ""),
               transformed |-> [err |-> FALSE, val |-> NoA2ARequest]]

InitFnOff ==
  /\ fnStage = "off"
  /\ fnIn = [model |-> "", agents |-> <<>>, openAIReq |-> ZeroOpenAIRequest,
             conversationId |-> "", messageID |-> ""]
  /\ fnOut = NoFnOutput

InitCard ==
  /\ cardStage = "input"
  /\ cardDoc \in CardDocs
  /\ gatewayURL \in {"https://gateway.agentic-layer.ai", "http://localhost:10000/"}
  /\ agentPath \in {"/test-agent", "/agents/weather/"}
  /\ cardIn = GNilMap
  /\ cardOut = GNilMap
  /\ cardEnc = JNull
  /\ InitHttp
  /\ InitBridge
  /\ InitFnOff

CardDecode ==
  /\ cardStage = "input"
  /\ UnmarshalCard(<<cardDoc>>).ok
  /\ cardIn' = UnmarshalCard(<<cardDoc>>).m
  /\ cardStage' = "decoded"
  /\ UNCHANGED <<cardDoc, gatewayURL, agentPath, cardOut, cardEnc>>
  /\ UNCHANGED httpVars
  /\ UNCHANGED bridgeVars
  /\ UNCHANGED fnVars

CardRewrite ==
  /\ cardStage = "decoded"
  /\ cardOut' = rewriteAgentCardMap(cardIn, gatewayURL, agentPath)
  /\ cardStage' = "rewritten"
  /\ UNCHANGED <<cardDoc, gatewayURL, agentPath, cardIn, cardEnc>>
  /\ UNCHANGED httpVars
  /\ UNCHANGED bridgeVars
  /\ UNCHANGED fnVars

CardEncode ==
  /\ cardStage = "rewritten"
  /\ cardEnc' = MarshalCard(cardOut)
  /\ cardStage' = "encoded"
  /\ UNCHANGED <<cardDoc, gatewayURL, agentPath, cardIn, cardOut>>
  /\ UNCHANGED httpVars
  /\ UNCHANGED bridgeVars
  /\ UNCHANGED fnVars

NextCard == CardDecode \/ CardRewrite \/ CardEncode

SpecCard == InitCard /\ [][NextCard]_vars

(***************************************************************************)
(* Requests and downstream behaviour                                       *)
(***************************************************************************)
MaxWrites == 1

MaxWriteHeaderCalls == 1

\* requests without body, conversation id or content headers
PlainRequests ==
  LET Methods == {"GET", "POST"}
      Paths ==
        { "/test-agent/.well-known/agent-card.json",
          "/agents/weather//.well-known/agent-card.json",
          "/.well-known/agent-card.json",
          "/.well-known/agent-card.json/.well-known/agent-card.json",
          "/test-agent/.well-known/agent-card.json/extra",
          "/api/agents",
          "/chat/completions",
          "/models" }
      Hosts == {"", "gateway.agentic-layer.ai:8443"}
      Protos == {"", "https"}
  IN  {[method |-> m, path |-> p, host |-> h, proto |-> x, cid |-> "",
        contentType |-> "", hdrContentLength |-> "", contentLength |-> 0,
        body |-> <<>>] : m \in Methods, p \in Paths, h \in Hosts, x \in Protos}

MaxClock == 2

MaxRequests == 2

\* values of uuid.New().String()
UUIDs == {"6ba7b810-9dad-11d1-80b4-00c04fd430c8", "6ba7b811-9dad-11d1-80b4-00c04fd430c8"}

\* cfg.Agents of the handlers a chat or models request may be handed to: no
\* configuration, one agent, and a registry with an entry without URL, an
\* entry whose URL does not parse, a duplicate model id and a model id with a
\* character that is no path character
Registries ==
  { <<>>,
    <<[ModelID |-> "weather-agent", URL |-> "http://localhost:8001",
       OwnedBy |-> "agentic-layer", CreatedAt |-> 1730000000]>>,
    <<[ModelID |-> "no-url-agent", URL |-> "",
       OwnedBy |-> "", CreatedAt |-> 0],
      [ModelID |-> "weather-agent", URL |-> "HTTPS://Weather.Example:8443/a2a?x=1",
       OwnedBy |-> "agentic-layer", CreatedAt |-> 1730000000],
      [ModelID |-> "bad-url-agent", URL |-> "http://weather:port",
       OwnedBy |-> "agentic-layer", CreatedAt |-> 1],
      [ModelID |-> "weather-agent", URL |-> "://missing-scheme",
       OwnedBy |-> "someone-else", CreatedAt |-> 2],
      [ModelID |-> "a=b", URL |-> "http://localhost:8002",
       OwnedBy |-> "agentic-layer", CreatedAt |-> 3]>> }

MessageDoc(role, content) == JObj([role |-> JStr(role), content |-> JStr(content)])

\* a body whose Read fails
Unreadable == [t |-> "unreadable", v |-> 0]

\* request bodies: objects with every combination of a model, a messages and
\* a stream member, and bodies that are no such object
ChatBodies ==
  LET ModelDocs ==
        { Absent, JStr("weather-agent"), JStr("does-not-exist"), JStr("../etc"),
          JStr("a=b"), JStr("no-url-agent"), JStr("bad-url-agent"), JNum(0, 4) }
      MessagesDocs ==
        { Absent, JArr(<<>>), JStr("Hello"),
          JArr(<<MessageDoc("user", "Hello")>>),
          JArr(<<MessageDoc("system", "Be brief"),
                 MessageDoc("assistant", "Earlier answer"),
                 MessageDoc("tool", "What is the weather?")>>) }
      StreamDocs == {Absent, JBool(TRUE)}
  IN  { <<JObj(Opt("model", m) @@ Opt("messages", ms) @@ Opt("stream", st))>> :
          m \in ModelDocs, ms \in MessagesDocs, st \in StreamDocs }
        \cup { <<>>, <<Unreadable>>, <<TextChunk("{\"model\": ")>>, <<JNull>>,
               <<JArr(<<JStr("weather-agent")>>)>>,
               <<JObj([Stream |-> JBool(TRUE)])>>,
               <<JObj([model |-> JStr("weather-agent"), stream |-> JStr("true")])>>,
               <<JObj([model |-> JStr("weather-agent"),
                       messages |-> JArr(<<MessageDoc("user", "Hello")>>),
                       stream |-> JBool(FALSE)])>>,
               <<JObj([model |-> JStr("weather-agent"),
                       messages |-> JArr(<<MessageDoc("assistant", "Hi"),
                                           MessageDoc("user", "")>>)])>> }

ConversationIDs == {"", "conv-abc"}

\* POST /chat/completions requests; <<Content-Length header, ContentLength
\* field>> is chunked (no header, -1) or announces the length of the body
ChatRequests ==
  LET ContentLengths(body) ==
        {<<"", -1>>} \cup
          (IF body = <<Unreadable>> THEN {}
           ELSE {<<Itoa(BodyLen(body)), BodyLen(body)>>})
  IN  UNION {
        {[method |-> "POST", path |-> "/chat/completions",
          host |-> "gateway.agentic-layer.ai:8443", proto |-> "", cid |-> c,
          contentType |-> "application/json", hdrContentLength |-> l[1],
          contentLength |-> l[2], body |-> b] :
            c \in ConversationIDs, l \in ContentLengths(b)} : b \in ChatBodies }

Requests == PlainRequests \cup ChatRequests

Statuses == {200, 404, 500}

\* <<Content-Type, Content-Length>> pairs the downstream handler may set
DownHeaders ==
  { <<"application/json", "">>,
    <<"application/json; charset=utf-8", "17">>,
    <<"text/html", "">> }

TextPartDoc(text) == JObj([kind |-> JStr("text"), text |-> JStr(text)])

\* an A2A success envelope with one text artifact
ArtifactResponse ==
  JObj([jsonrpc |-> JStr("2.0"), id |-> JNum(0, 1),
        result |-> JObj([kind |-> JStr("task"),
                         artifacts |-> JArr(<<JObj([artifactId |-> JStr("artifact-123"),
                                                    parts |-> JArr(<<TextPartDoc("Sunny.")>>)])>>),
                         history |-> JArr(<<JObj([role |-> JStr("agent"),
                                                  parts |-> JArr(<<TextPartDoc("Checking")>>)])>>)])])

\* an A2A success envelope without artifacts: the answer is in the history
HistoryResponse ==
  JObj([jsonrpc |-> JStr("2.0"), id |-> JNum(0, 1),
        result |-> JObj([kind |-> JStr("task"),
                         history |-> JArr(<<JObj([role |-> JStr("user"),
                                                  parts |-> JArr(<<TextPartDoc("Hello")>>)]),
                                            JObj([role |-> JStr("agent"),
                                                  parts |-> JArr(<<TextPartDoc("Hi!")>>)])>>)])])

\* the answers of an agent that echoes the text of the message it was sent
\* as one text artifact, with and without a status message of the agent in
\* the history of the task
EchoChunks(r) ==
  LET EchoResponse(a2aBody, history) ==
        LET text == a2aBody.v["params"].v["message"].v["parts"].v[1].v["text"].v
        IN  JObj([jsonrpc |-> JStr("2.0"), id |-> a2aBody.v["id"],
                  result |->
                    JObj([kind |-> JStr("task"),
                          artifacts |-> JArr(<<JObj([artifactId |-> JStr("artifact-123"),
                                                     parts |-> JArr(<<TextPartDoc(text)>>)])>>),
                          history |-> JArr(history)])])
  IN  IF Len(r.body) = 1 /\ r.body[1].t = "jobject" /\ "params" \in DOMAIN r.body[1].v
      THEN { EchoResponse(r.body[1], h) :
               h \in { <<>>,
                       <<JObj([role |-> JStr("agent"),
                               parts |-> JArr(<<TextPartDoc("Checking")>>)])>> } }
      ELSE {}

BodyChunks ==
  LET ValidIface ==
        JObj([transport |-> JStr("HTTP+JSON"), url |-> JStr("http://10.0.1.50:8000/")])
      DroppedIface ==
        JObj([transport |-> JStr("websocket"), url |-> JStr("ws://internal/")])
  IN  { ArtifactResponse,
        HistoryResponse,
        TextChunk("not found"),
        TextChunk("{\"invalid\": json}"),
        JNull,
        JStr("card"),
        JArr(<<ValidIface>>),
        CardDocOf(JStr("http://localhost:8000/"), JArr(<<>>), <<>>),
        CardDocOf(JStr("http://localhost:8000/"), JArr(<<DroppedIface>>), <<>>),
        CardDocOf(JNum(0, 42), JArr(<<DroppedIface, ValidIface>>),
                  [provider |-> JObj([url |-> JStr("https://qaware.de")])]) }

(***************************************************************************)
(* agentcard-rw: handleRequest                                             *)
(***************************************************************************)
\* the scheme is always http
getGatewayURLWithoutProto(r) == [err |-> FALSE, url |-> "http://" \o r.host]

\* never returns an error; the Host is used as it is, empty or not
getGatewayURL(r) ==
  LET scheme == IF r.proto # "" THEN r.proto ELSE "http"
  IN  [err |-> FALSE, url |-> scheme \o "://" \o r.host]

\* the interception test without the method
rwOwnsAnyMethod(r) == isAgentCardEndpoint(r.path)

\* req.Method == http.MethodGet && isAgentCardEndpoint(req.URL.Path)
rwOwns(r) == r.method = "GET" /\ isAgentCardEndpoint(r.path)

\* no content type check at all
isJSONContentTypeAny(contentType) == TRUE

\* strings.Contains(contentType, "application/json")
isJSONContentType(contentType) == Contains(contentType, "application/json")

\* every backend error reported as 500
backendErrorStatusAlways500(statusCode) == IF statusCode = 200 THEN statusCode ELSE 500

\* the status handed to http.Error when the backend status is not 200
backendErrorStatus(statusCode) == statusCode

InitServe ==
  /\ cardStage = "off"
  /\ cardDoc = JNull
  /\ gatewayURL = ""
  /\ agentPath = ""
  /\ cardIn = GNilMap
  /\ cardOut = GNilMap
  /\ cardEnc = JNull
  /\ InitHttp
  /\ InitBridge
  /\ InitFnOff

cardFrame == <<cardStage, cardDoc, cardIn, cardOut, cardEnc>>

\* the host hands a request to one of the plugins
\* (a request with a body is only followed through the openai-a2a handler,
\* the agentcard-rw handler does not look at it)
Receive ==
  /\ pc = "idle"
  /\ \/ \E r \in PlainRequests :
          /\ plugin' = "agentcard-rw"
          /\ req' = r
          /\ received' = r
          /\ agents' = <<>>
     \/ \E r \in Requests, cfg \in Registries :
          /\ plugin' = "openai-a2a"
          /\ req' = r
          /\ received' = r
          /\ agents' = cfg
  /\ pc' = "received"
  /\ UNCHANGED <<target, rw, sink, header, down, downCalls, downReq,
                 gatewayURL, agentPath>>
  /\ UNCHANGED cardFrame
  /\ UNCHANGED <<clock, generated, served, openAIReq, a2aReq, resolution>>
  /\ UNCHANGED fnVars

\* handler.ServeHTTP(w, req): the downstream handler gets the real writer
ServeOnSink ==
  /\ target' = "sink"
  /\ downCalls' = downCalls + 1
  /\ downReq' = req
  /\ pc' = "downstream"
  /\ UNCHANGED <<plugin, req, rw, sink, header, down>>

\* not a GET agent card request: pass through
RwPassThrough ==
  /\ pc = "received"
  /\ plugin = "agentcard-rw"
  /\ ~rwOwns(req)
  /\ ServeOnSink
  /\ UNCHANGED <<gatewayURL, agentPath>>
  /\ UNCHANGED cardFrame
  /\ UNCHANGED bridgeVars
  /\ UNCHANGED fnVars
  /\ UNCHANGED received

\* GET agent card request: gateway URL, agent path, then pass through (no
\* agent path) or forward with the capturing writer
RwAgentCardRequest ==
  /\ pc = "received"
  /\ plugin = "agentcard-rw"
  /\ rwOwns(req)
  /\ LET g == getGatewayURL(req)
         a == extractAgentPath(req.path)
     IN  IF g.err
         THEN /\ sink' = ErrorSink(sink, "host header missing", 500)
              /\ header' = ErrorHeaders(header)
              /\ pc' = "done"
              /\ UNCHANGED <<plugin, req, target, rw, down, downCalls, downReq,
                             gatewayURL, agentPath>>
         ELSE IF a = ""
         THEN /\ ServeOnSink
              /\ gatewayURL' = g.url
              /\ agentPath' = a
         ELSE /\ gatewayURL' = g.url
              /\ agentPath' = a
              /\ rw' = newResponseWriter
              /\ target' = "rw"
              /\ downCalls' = downCalls + 1
              /\ downReq' = req
              /\ pc' = "downstream"
              /\ UNCHANGED <<plugin, req, sink, header, down>>
  /\ UNCHANGED cardFrame
  /\ UNCHANGED bridgeVars
  /\ UNCHANGED fnVars
  /\ UNCHANGED received

\* after the backend returned: status check, content type check, parse,
\* rewrite, marshal, write
RwFinish ==
  /\ pc = "captured"
  /\ plugin = "agentcard-rw"
  /\ IF rw.statusCode # 200
     THEN /\ sink' = ErrorSink(sink, "Backend service returned an error",
                               backendErrorStatus(rw.statusCode))
          /\ header' = ErrorHeaders(header)
     ELSE IF ~isJSONContentType(HeaderGet(header, "Content-Type"))
     THEN /\ sink' = ErrorSink(sink, "Expected application/json content type", 415)
          /\ header' = ErrorHeaders(header)
     ELSE LET u == UnmarshalCard(rw.body)
          IN  IF ~u.ok
              THEN /\ sink' = ErrorSink(sink, "Failed to parse agent card JSON", 500)
                   /\ header' = ErrorHeaders(header)
              ELSE LET m == rewriteAgentCardMap(u.m, gatewayURL, agentPath)
                       rewrittenBody == MarshalCard(m)
                   IN  /\ header' = HeaderDel(header, "Content-Length")
                       /\ sink' = SinkWrite(SinkWriteHeader(sink, 200), rewrittenBody)
  /\ pc' = "done"
  /\ UNCHANGED <<plugin, req, target, rw, down, downCalls, downReq,
                 gatewayURL, agentPath>>
  /\ UNCHANGED cardFrame
  /\ UNCHANGED bridgeVars
  /\ UNCHANGED fnVars
  /\ UNCHANGED received

(***************************************************************************)
(* openai-a2a: handleRequest                                               *)
(***************************************************************************)
bridgeIsModels(r) == r.method = "GET" /\ r.path = "/models"

bridgeIsChat(r) == r.method = "POST" /\ r.path = "/chat/completions"

\* neither GET /models nor POST /chat/completions: pass through
BridgePassThrough ==
  /\ pc = "received"
  /\ plugin = "openai-a2a"
  /\ ~bridgeIsModels(req)
  /\ ~bridgeIsChat(req)
  /\ ServeOnSink
  /\ UNCHANGED <<gatewayURL, agentPath>>
  /\ UNCHANGED cardFrame
  /\ UNCHANGED bridgeVars
  /\ UNCHANGED fnVars
  /\ UNCHANGED received

\* GET /models: handleModelsRequest (its method check never fails here)
BridgeModels ==
  /\ pc = "received"
  /\ plugin = "openai-a2a"
  /\ bridgeIsModels(req)
  /\ IF req.method # "GET"
     THEN /\ sink' = ErrorSink(sink, "method not allowed", 405)
          /\ header' = ErrorHeaders(header)
     ELSE /\ header' = HeaderSet(header, "Content-Type", "application/json")
          /\ sink' = SinkWrite(SinkWriteHeader(sink, 200), MarshalModelsResponse(agents))
  /\ pc' = "done"
  /\ UNCHANGED <<plugin, req, target, rw, down, downCalls, downReq,
                 gatewayURL, agentPath>>
  /\ UNCHANGED cardFrame
  /\ UNCHANGED bridgeVars
  /\ UNCHANGED fnVars
  /\ UNCHANGED received

\* the error object without its code member
streamingErrorResponseWithoutCode ==
  JObj([error |->
          JObj([message |-> JStr("Streaming is not currently supported by the Agent Gateway"),
                type    |-> JStr("invalid_request_error")])])

\* the body of the streaming error (Encode ends the JSON text with a newline)
streamingErrorResponse ==
  JObj([error |->
          JObj([message |-> JStr("Streaming is not currently supported by the Agent Gateway"),
                type    |-> JStr("invalid_request_error"),
                code    |-> JNull])])

\* the status of a resolution error with the two codes exchanged
resolutionStatusSwapped(type) == IF type = "not_found" THEN 400 ELSE 404

\* the status of a resolution error
resolutionStatus(type) == IF type = "not_found" THEN 404 ELSE 400

\* the error is written after the body was taken off the request
BridgeErrorWithoutBody(msg, code) ==
  /\ sink' = ErrorSink(sink, msg, code)
  /\ header' = ErrorHeaders(header)
  /\ pc' = "done"
  /\ req' = [req EXCEPT !.body = <<>>]
  /\ UNCHANGED <<target, rw, downCalls, downReq, a2aReq, generated>>

\* the handler answers with http.Error and returns
BridgeError(msg, code) ==
  /\ sink' = ErrorSink(sink, msg, code)
  /\ header' = ErrorHeaders(header)
  /\ pc' = "done"
  /\ UNCHANGED <<req, target, rw, downCalls, downReq, a2aReq, generated>>

\* POST /chat/completions up to handler.ServeHTTP(rw, req): read, decode,
\* stream check, model check, resolution, conversation id, transformation,
\* request rewrite, forward with the capturing writer
BridgeChatRequest ==
  /\ pc = "received"
  /\ plugin = "openai-a2a"
  /\ bridgeIsChat(req)
  /\ LET readFails == \E i \in 1..Len(req.body) : req.body[i] = Unreadable
         u == UnmarshalOpenAIRequest(req.body)
         res == resolveAgentBackend(u.val.Model, agents)
     IN  IF req.method # "POST"
         THEN BridgeError("method not allowed", 405)
              /\ UNCHANGED <<clock, openAIReq, resolution>>
         ELSE IF readFails
         THEN BridgeError("failed to read request body", 400)
              /\ UNCHANGED <<clock, openAIReq, resolution>>
         ELSE IF ~u.ok
         THEN BridgeError("invalid OpenAI request format", 400)
              /\ UNCHANGED <<clock, openAIReq, resolution>>
         ELSE IF u.val.Stream
         THEN /\ header' = HeaderSet(header, "Content-Type", "application/json")
              /\ sink' = SinkWrite(SinkWriteHeader(sink, 400), streamingErrorResponse)
              /\ pc' = "done"
              /\ openAIReq' = u.val
              /\ UNCHANGED <<req, target, rw, downCalls, downReq, a2aReq, generated,
                             clock, resolution>>
         ELSE IF u.val.Model = ""
         THEN BridgeError("model parameter is required", 400)
              /\ openAIReq' = u.val
              /\ UNCHANGED <<clock, resolution>>
         ELSE IF ~res.ok
         THEN BridgeError(res.ClientMsg, resolutionStatus(res.Type))
              /\ openAIReq' = u.val
              /\ resolution' = res
              /\ UNCHANGED clock
         ELSE \E now \in clock..MaxClock, messageID \in UUIDs :
                LET headerValue == req.cid
                    conversationId == IF headerValue = "" THEN Itoa(now)
                                      ELSE headerValue
                    tr == transformOpenAIToA2A(u.val, conversationId, messageID)
                    a2aBody == MarshalA2ARequest(tr.val)
                    fwd == [req EXCEPT !.body = <<a2aBody>>,
                                       !.contentLength = BodyLen(<<a2aBody>>),
                                       !.path = res.info.Path,
                                       !.contentType = "application/json"]
                IN  /\ headerValue # "" => now = clock
                    /\ clock' = now
                    /\ openAIReq' = u.val
                    /\ resolution' = res
                    /\ IF tr.err
                       THEN BridgeError("invalid OpenAI request", 400)
                       ELSE /\ a2aReq' = tr.val
                            /\ generated' = IF headerValue = ""
                                            THEN Append(generated, conversationId)
                                            ELSE generated
                            /\ req' = fwd
                            /\ rw' = newResponseWriter
                            /\ target' = "rw"
                            /\ downCalls' = downCalls + 1
                            /\ downReq' = fwd
                            /\ pc' = "downstream"
                            /\ UNCHANGED <<sink, header>>
  /\ UNCHANGED <<plugin, down, agents, served, gatewayURL, agentPath>>
  /\ UNCHANGED cardFrame
  /\ UNCHANGED fnVars
  /\ UNCHANGED received

\* for key, values := range src { for _, value := range values { dst.Add(key, value) } }
\* where dst is the same map as src when src is rw.Header() and dst w.Header()
copyHeaders(dst, src) == [k \in HeaderNames |-> dst[k] \o src[k]]

\* w.Write(b): one write of all the captured bytes
SinkWriteAll(s, chunks) ==
  LET s1 == SinkWriteHeader(s, 200)
  IN  [s1 EXCEPT !.body = @ \o chunks]

\* the captured bytes written through as they are
a2aParseErrorPassedOn(s, body) == SinkWriteAll(s, body)

\* json.Unmarshal(rw.body.Bytes(), &a2aResp) failed:
\* http.Error(w, "failed to parse backend response", 500)
a2aParseError(s, body) == ErrorSink(s, "failed to parse backend response", 500)

\* after handler.ServeHTTP(rw, req) returned: a status other than 200 is
\* passed on with headers and body, a 200 body is decoded, transformed to
\* the OpenAI response and written
BridgeFinish ==
  /\ pc = "captured"
  /\ plugin = "openai-a2a"
  /\ IF rw.statusCode # 200
     THEN /\ header' = copyHeaders(header, header)
          /\ sink' = SinkWriteAll(SinkWriteHeader(sink, rw.statusCode), rw.body)
          /\ UNCHANGED clock
     ELSE LET u == UnmarshalA2AResponse(rw.body)
          IN  IF ~u.ok
              THEN /\ sink' = a2aParseError(sink, rw.body)
                   /\ header' = ErrorHeaders(header)
                   /\ UNCHANGED clock
              ELSE \E now \in clock..MaxClock, id \in UUIDs :
                     \* time.Now().Unix(): seconds of a clock in nanoseconds
                     LET openAIResp == transformA2AToOpenAI(u.val, openAIReq, id,
                                                            now \div (10 ^ 9))
                     IN  /\ clock' = now
                         /\ header' = HeaderDel(HeaderSet(header, "Content-Type",
                                                          "application/json"),
                                                "Content-Length")
                         /\ sink' = SinkWrite(SinkWriteHeader(sink, 200),
                                              MarshalOpenAIResponse(openAIResp))
  /\ pc' = "done"
  /\ UNCHANGED <<plugin, req, target, rw, down, downCalls, downReq,
                 gatewayURL, agentPath>>
  /\ UNCHANGED cardFrame
  /\ UNCHANGED <<agents, generated, served, openAIReq, a2aReq, resolution>>
  /\ UNCHANGED fnVars
  /\ UNCHANGED received

(***************************************************************************)
(* The downstream handler (the KrakenD proxy to the backend)               *)
(***************************************************************************)
downFrame == <<plugin, req, pc, target, downCalls, downReq, gatewayURL, agentPath>>

\* w.Header().Set(...): both writers share the header map of the real writer
DownSetHeaders ==
  /\ pc = "downstream"
  /\ ~down.hdrSet
  /\ \E h \in DownHeaders :
       /\ header' = LET h1 == HeaderSet(header, "Content-Type", h[1])
                      IN  IF h[2] = "" THEN h1
                          ELSE HeaderSet(h1, "Content-Length", h[2])
       /\ down' = [down EXCEPT !.hdrSet = TRUE, !.ct = h[1]]
  /\ UNCHANGED <<rw, sink>>
  /\ UNCHANGED downFrame
  /\ UNCHANGED cardFrame
  /\ UNCHANGED bridgeVars
  /\ UNCHANGED fnVars
  /\ UNCHANGED received

DownWriteHeader ==
  /\ pc = "downstream"
  /\ down.whCalls < MaxWriteHeaderCalls
  /\ \E code \in Statuses :
       /\ down' = [down EXCEPT !.whCalls = @ + 1,
                               !.resp = SinkWriteHeader(@, code)]
       /\ IF target = "rw"
          THEN rw' = CaptureWriteHeader(rw, code) /\ UNCHANGED sink
          ELSE sink' = SinkWriteHeader(sink, code) /\ UNCHANGED rw
  /\ UNCHANGED header
  /\ UNCHANGED downFrame
  /\ UNCHANGED cardFrame
  /\ UNCHANGED bridgeVars
  /\ UNCHANGED fnVars
  /\ UNCHANGED received

DownWrite ==
  /\ pc = "downstream"
  /\ Len(down.resp.body) < MaxWrites
  /\ \E chunk \in BodyChunks \cup EchoChunks(downReq) :
       /\ down' = [down EXCEPT !.resp = SinkWrite(@, chunk)]
       /\ IF target = "rw"
          THEN rw' = CaptureWrite(rw, chunk) /\ UNCHANGED sink
          ELSE sink' = SinkWrite(sink, chunk) /\ UNCHANGED rw
  /\ UNCHANGED header
  /\ UNCHANGED downFrame
  /\ UNCHANGED cardFrame
  /\ UNCHANGED bridgeVars
  /\ UNCHANGED fnVars
  /\ UNCHANGED received

DownReturn ==
  /\ pc = "downstream"
  /\ pc' = IF target = "rw" THEN "captured" ELSE "done"
  /\ UNCHANGED <<plugin, req, target, rw, sink, header, down, downCalls, downReq,
                 gatewayURL, agentPath>>
  /\ UNCHANGED cardFrame
  /\ UNCHANGED bridgeVars
  /\ UNCHANGED fnVars
  /\ UNCHANGED received

\* the response is complete; the host takes the next request
NextRequest ==
  /\ pc = "done"
  /\ served + 1 < MaxRequests
  /\ served' = served + 1
  /\ plugin' = "none"
  /\ req' = NoRequest
  /\ received' = NoRequest
  /\ pc' = "idle"
  /\ target' = "none"
  /\ rw' = [statusCode |-> 0, body |-> <<>>]
  /\ sink' = NewSink
  /\ header' = NoHeaders
  /\ down' = [hdrSet |-> FALSE, whCalls |-> 0, ct |-> "", resp |-> NewSink]
  /\ downCalls' = 0
  /\ downReq' = NoRequest
  /\ gatewayURL' = ""
  /\ agentPath' = ""
  /\ agents' = <<>>
  /\ openAIReq' = ZeroOpenAIRequest
  /\ a2aReq' = NoA2ARequest
  /\ resolution' = NoResolution
  /\ UNCHANGED <<clock, generated>>
  /\ UNCHANGED cardFrame
  /\ UNCHANGED fnVars

Next ==
  \/ Receive
  \/ RwPassThrough
  \/ RwAgentCardRequest
  \/ RwFinish
  \/ BridgePassThrough
  \/ BridgeModels
  \/ BridgeChatRequest
  \/ BridgeFinish
  \/ DownSetHeaders
  \/ DownWriteHeader
  \/ DownWrite
  \/ DownReturn

Init == InitServe

Spec == Init /\ [][Next]_vars

\* the plugin serves one request after the other
NextSeq ==
  \/ Next
  \/ NextRequest

SpecSeq == Init /\ [][NextSeq]_vars

(***************************************************************************)
(* The bridge's functions on one input: resolveAgentBackend and            *)
(* transformOpenAIToA2A                                                    *)
(***************************************************************************)
MaxAgents == 2

MaxMessages == 2

FnModels ==
  { "", "weather-agent", "Weather-Agent", "local/mock-agent", "does-not-exist",
    "a..b", "..", "a?b", "a#b", "a=b", "it's", "no-url-agent", "bad-url-agent" }

AgentInfos ==
  { [ModelID |-> "weather-agent", URL |-> "http://localhost:8001",
     OwnedBy |-> "agentic-layer", CreatedAt |-> 1730000000],
    [ModelID |-> "weather-agent", URL |-> "",
     OwnedBy |-> "agentic-layer", CreatedAt |-> 1730000000],
    [ModelID |-> "local/mock-agent", URL |-> "http://mock:8080/a2a#main",
     OwnedBy |-> "local", CreatedAt |-> 1],
    [ModelID |-> "no-url-agent", URL |-> "",
     OwnedBy |-> "", CreatedAt |-> 0],
    [ModelID |-> "bad-url-agent", URL |-> "http://[::1:8080",
     OwnedBy |-> "", CreatedAt |-> 0],
    [ModelID |-> "a=b", URL |-> "localhost:8001",
     OwnedBy |-> "", CreatedAt |-> 0] }

OpenAIMessages ==
  { [Role |-> "user", Content |-> "Hello"],
    [Role |-> "assistant", Content |-> "Earlier answer"],
    [Role |-> "system", Content |-> ""] }

InitFn ==
  /\ cardStage = "off"
  /\ cardDoc = JNull
  /\ gatewayURL = ""
  /\ agentPath = ""
  /\ cardIn = GNilMap
  /\ cardOut = GNilMap
  /\ cardEnc = JNull
  /\ InitHttp
  /\ InitBridge
  /\ fnStage = "input"
  /\ \E m \in FnModels,
        registry \in UNION {[1..n -> AgentInfos] : n \in 0..MaxAgents},
        ms \in UNION {[1..n -> OpenAIMessages] : n \in 0..MaxMessages},
        c \in ConversationIDs \ {""}, id \in UUIDs :
       fnIn = [model |-> m, agents |-> registry,
               openAIReq |-> [Model |-> m, Messages |-> ms, Stream |-> FALSE],
               conversationId |-> c, messageID |-> id]
  /\ fnOut = NoFnOutput

ResolveStep ==
  /\ fnStage = "input"
  /\ fnOut' = [fnOut EXCEPT !.resolved = resolveAgentBackend(fnIn.model, fnIn.agents)]
  /\ fnStage' = "resolved"
  /\ UNCHANGED fnIn
  /\ UNCHANGED cardVars
  /\ UNCHANGED httpVars
  /\ UNCHANGED bridgeVars

TransformStep ==
  /\ fnStage = "resolved"
  /\ fnOut' = [fnOut EXCEPT !.transformed =
                 transformOpenAIToA2A(fnIn.openAIReq, fnIn.conversationId,
                                      fnIn.messageID)]
  /\ fnStage' = "transformed"
  /\ UNCHANGED fnIn
  /\ UNCHANGED cardVars
  /\ UNCHANGED httpVars
  /\ UNCHANGED bridgeVars

NextFn == ResolveStep \/ TransformStep

SpecFn == InitFn /\ [][NextFn]_vars

(***************************************************************************)
(* The bridge's response function on one input: transformA2AToOpenAI       *)
(***************************************************************************)
MaxParts == 2

MaxArtifacts == 2

MaxHistory == 2

InitResp ==
  /\ cardStage = "off"
  /\ cardDoc = JNull
  /\ gatewayURL = ""
  /\ agentPath = ""
  /\ cardIn = GNilMap
  /\ cardOut = GNilMap
  /\ cardEnc = JNull
  /\ InitHttp
  /\ InitBridge
  /\ fnStage = "response"
  /\ LET \* the elements of a Parts slice: a models.TextPart, a decoded text
         \* part and a decoded part of another kind
         A2AParts ==
           { [t |-> "TextPart", v |-> [Kind |-> "text", Text |-> "Sunny"]],
             GMap([kind |-> GStr("text"), text |-> GStr(" today")]),
             GMap([kind |-> GStr("data"), text |-> GStr("raw")]) }
         PartSeqs == UNION {[1..n -> A2AParts] : n \in 0..MaxParts}
         Artifacts == {[Parts |-> ps] : ps \in PartSeqs}
         Messages == {[Role |-> r, Parts |-> ps] : r \in {"agent", "user"}, ps \in PartSeqs}
     IN  \E as \in UNION {[1..n -> Artifacts] : n \in 0..MaxArtifacts},
            hs \in UNION {[1..n -> Messages] : n \in 0..MaxHistory} :
           fnIn = [a2aResp |-> [Result |-> [Artifacts |-> as, History |-> hs]],
                   originalReq |-> [Model |-> "weather-agent", Messages |-> <<>>,
                                    Stream |-> FALSE]]
  /\ fnOut = NoFnOutput

ResponseStep ==
  /\ fnStage = "response"
  /\ \E id \in UUIDs :
       fnOut' = transformA2AToOpenAI(fnIn.a2aResp, fnIn.originalReq, id, 0)
  /\ fnStage' = "answered"
  /\ UNCHANGED fnIn
  /\ UNCHANGED cardVars
  /\ UNCHANGED httpVars
  /\ UNCHANGED bridgeVars

SpecResp == InitResp /\ [][ResponseStep]_vars

(***************************************************************************)
(* openai-a2a: parseConfig and registerHandlers on one configuration       *)
(***************************************************************************)
configKey == "openai_a2a_config"

\* AgentInfo from an element of agents
DecodeAgentInfo(d) ==
  LET Zero == [ModelID |-> "", URL |-> "", OwnedBy |-> "", CreatedAt |-> 0]
      \* an int64 field: absent and null leave 0, an integer literal sets it
      DecodeInt64(f) ==
        CASE f.t \in {"absent", "jnull"} -> [ok |-> TRUE, val |-> 0]
          [] f.t = "jnumber"             -> [ok |-> TRUE, val |-> f.v[1] * Half + f.v[2]]
          [] OTHER                       -> [ok |-> FALSE, val |-> 0]
  IN  CASE d.t = "jnull"   -> [ok |-> TRUE, val |-> Zero]
        [] d.t = "jobject" ->
             LET m == DecodeString(FieldOf(d, "model_id"))
                 u == DecodeString(FieldOf(d, "url"))
                 o == DecodeString(FieldOf(d, "owned_by"))
                 c == DecodeInt64(FieldOf(d, "createdat"))
             IN  [ok  |-> m.ok /\ u.ok /\ o.ok /\ c.ok,
                  val |-> [ModelID |-> m.val, URL |-> u.val, OwnedBy |-> o.val,
                           CreatedAt |-> c.val]]
        [] OTHER           -> [ok |-> FALSE, val |-> Zero]

\* extra is the map[string]interface{} of the endpoint's extra_config; the
\* result is the error and the config struct as parseConfig leaves it
parseConfig(extra) ==
  LET Empty == [err |-> FALSE, cfg |-> [Agents |-> <<>>]]
      Failed == [err |-> TRUE, cfg |-> [Agents |-> <<>>]]
  IN  IF configKey \notin DOMAIN extra.v \/ extra.v[configKey].t = "nil" THEN Empty
      ELSE IF extra.v[configKey].t # "map" THEN Failed
      ELSE LET raw == EncodeValue(extra.v[configKey])
               as  == FieldOf(raw, "agents")
           IN  CASE as.t \in {"absent", "jnull"} -> Empty
                 [] as.t = "jarray" ->
                      IF \A i \in 1..Len(as.v) : DecodeAgentInfo(as.v[i]).ok
                      THEN [err |-> FALSE,
                            cfg |-> [Agents |->
                                       [i \in 1..Len(as.v) |-> DecodeAgentInfo(as.v[i]).val]]]
                      ELSE Failed
                 [] OTHER -> Failed

\* the handler is produced unless parseConfig returned an error; the
\* registry of the handler is cfg.Agents
registerHandlers(extra) ==
  LET p == parseConfig(extra)
  IN  [err |-> p.err, handler |-> ~p.err, agents |-> p.cfg.Agents]

\* extra_config as the host hands it over, decoded from the configuration file
ConfigExtras ==
  LET \* the elements of agents in a configuration file
      AgentDocs ==
        { JObj([model_id |-> JStr("weather-agent"), url |-> JStr("http://localhost:8001"),
                owned_by |-> JStr("agentic-layer"), createdAt |-> JNum(0, 12)]),
          JObj([model_id |-> JStr("weather-agent"), url |-> JStr("https://weather.example:8443")]),
          JObj([model_id |-> JStr("no-url-agent")]),
          JObj([model_id |-> JStr("opaque-agent"), url |-> JStr("localhost:8001")]),
          JObj([model_id |-> JStr("bad-url-agent"), url |-> JStr("://missing-scheme")]),
          JObj([model_id |-> JNum(0, 7), url |-> JStr("http://localhost:8002")]),
          JStr("weather-agent") }
      AgentsDocs == {Absent, JNull, JStr("none")}
                      \cup {JArr(q) : q \in UNION {[1..n -> AgentDocs] : n \in 0..MaxAgents}}
      PluginDocs == {Absent, JNull, JStr("agents")}
                      \cup {JObj(Opt("agents", a)) : a \in AgentsDocs}
  IN  {DecodeValue(JObj(Opt(configKey, c))) : c \in PluginDocs}

InitConfig ==
  /\ cardStage = "off"
  /\ cardDoc = JNull
  /\ gatewayURL = ""
  /\ agentPath = ""
  /\ cardIn = GNilMap
  /\ cardOut = GNilMap
  /\ cardEnc = JNull
  /\ InitHttp
  /\ InitBridge
  /\ fnStage = "config"
  /\ fnIn \in ConfigExtras
  /\ fnOut = NoFnOutput

RegisterStep ==
  /\ fnStage = "config"
  /\ fnOut' = registerHandlers(fnIn)
  /\ fnStage' = "registered"
  /\ UNCHANGED fnIn
  /\ UNCHANGED cardVars
  /\ UNCHANGED httpVars
  /\ UNCHANGED bridgeVars

SpecConfig == InitConfig /\ [][RegisterStep]_vars

(***************************************************************************)
(* openai-a2a: requests handled concurrently on the shared cfg.Agents      *)
(* Every request runs in its own goroutine; the handlers are given the     *)
(* same slice.  A step is one statement that reads the slice: an iteration *)
(* of the range loop of handleModelsRequest or of resolveAgentBackend.     *)
(* fnIn is the configuration as loaded, fnOut the state of each request.   *)
(***************************************************************************)
MaxProcs == 2

InitConc ==
  /\ cardStage = "off"
  /\ cardDoc = JNull
  /\ gatewayURL = ""
  /\ agentPath = ""
  /\ cardIn = GNilMap
  /\ cardOut = GNilMap
  /\ cardEnc = JNull
  /\ InitHttp
  /\ clock = 1
  /\ generated = <<>>
  /\ served = 0
  /\ openAIReq = ZeroOpenAIRequest
  /\ a2aReq = NoA2ARequest
  /\ resolution = NoResolution
  /\ agents \in Registries
  /\ fnStage = "concurrent"
  /\ fnIn = [Agents |-> agents]
  /\ fnOut = [p \in 1..MaxProcs |->
                [stage |-> "idle", model |-> "", i |-> 0, list |-> <<>>,
                 result |-> NoResolution, listing |-> JNull]]

concFrame == <<clock, generated, served, openAIReq, a2aReq, resolution,
               fnStage, fnIn>>

\* handleRequest: GET /models goes to the listing, POST /chat/completions with
\* a decoded model to the resolution
ConcReceive(p) ==
  /\ fnOut[p].stage = "idle"
  /\ \/ fnOut' = [fnOut EXCEPT ![p].stage = "models", ![p].i = 1]
     \/ \E m \in {"", "weather-agent", "no-url-agent", "does-not-exist", "a=b"} :
          fnOut' = [fnOut EXCEPT ![p].stage = "resolve", ![p].model = m, ![p].i = 0]
  /\ UNCHANGED agents
  /\ UNCHANGED concFrame
  /\ UNCHANGED cardVars
  /\ UNCHANGED httpVars

\* handleModelsRequest: one iteration of for _, agent := range agents, or the
\* response after the last one
ConcModels(p) ==
  /\ fnOut[p].stage = "models"
  /\ IF fnOut[p].i <= Len(agents)
     THEN fnOut' = [fnOut EXCEPT ![p].list = Append(@, agents[fnOut[p].i]),
                                 ![p].i = @ + 1]
     ELSE fnOut' = [fnOut EXCEPT ![p].listing = MarshalModelsResponse(fnOut[p].list),
                                 ![p].stage = "done"]
  /\ UNCHANGED agents
  /\ UNCHANGED concFrame
  /\ UNCHANGED cardVars
  /\ UNCHANGED httpVars

\* what one step of resolveAgentBackend leaves in the request's state: the
\* format checks (i = 0), then one loop iteration per step
resolveProgress(proc, registry) ==
  IF proc.i = 0
  THEN LET checks == resolveAgentBackend(proc.model, <<>>)
       IN  IF checks.Type = "not_found"
           THEN [proc EXCEPT !.i = 1, !.stage = "loop"]
           ELSE [proc EXCEPT !.result = checks, !.stage = "done"]
  ELSE IF proc.i > Len(registry)
  THEN [proc EXCEPT !.result = resolveLoop(proc.model, <<>>, 1), !.stage = "done"]
  ELSE LET r == resolveLoop(proc.model, <<registry[proc.i]>>, 1)
       IN  IF r.Type = "not_found"
           THEN [proc EXCEPT !.i = @ + 1]
           ELSE [proc EXCEPT !.result = r, !.stage = "done"]

\* a loop that takes the entries off the shared slice as it goes
ConcResolveConsuming(p) ==
  /\ fnOut[p].stage \in {"resolve", "loop"}
  /\ fnOut' = [fnOut EXCEPT ![p] = resolveProgress(fnOut[p], agents)]
  /\ agents' = IF fnOut[p].stage = "loop" /\ agents # <<>> THEN Tail(agents) ELSE agents
  /\ UNCHANGED concFrame
  /\ UNCHANGED cardVars
  /\ UNCHANGED httpVars

\* resolveAgentBackend: the slice is only read
ConcResolve(p) ==
  /\ fnOut[p].stage \in {"resolve", "loop"}
  /\ fnOut' = [fnOut EXCEPT ![p] = resolveProgress(fnOut[p], agents)]
  /\ UNCHANGED agents
  /\ UNCHANGED concFrame
  /\ UNCHANGED cardVars
  /\ UNCHANGED httpVars

NextConc == \E p \in 1..MaxProcs : ConcReceive(p) \/ ConcModels(p) \/ ConcResolve(p)

SpecConc == InitConc /\ [][NextConc]_vars

(***************************************************************************)
(* Properties of the rewrite (checked under SpecCard)                      *)
(***************************************************************************)
RecognizedTransports == {"jsonrpc", "grpc", "http+json"}

CardRewritten == cardStage \in {"rewritten", "encoded"}

InputIsArray ==
  /\ "additionalInterfaces" \in DOMAIN cardIn.v
  /\ cardIn.v["additionalInterfaces"].t = "slice"

InIfaces == cardIn.v["additionalInterfaces"].v

OutIfaces == cardOut.v["additionalInterfaces"].v

ExternalURL == constructExternalURL(gatewayURL, agentPath)

\* an input element the rewrite has to keep
IsKept(e) ==
  /\ e.t = "map"
  /\ "transport" \in DOMAIN e.v
  /\ e.v["transport"].t = "string"
  /\ ToLower(e.v["transport"].v) \in RecognizedTransports

KeptSet == {i \in 1..Len(InIfaces) : IsKept(InIfaces[i])}

\* the input index of the j-th kept element
NthKept(j) == CHOOSE i \in KeptSet : Cardinality({k \in KeptSet : k < i}) = j - 1

SameButUrl(o, e) ==
  /\ o.t = "map"
  /\ e.t = "map"
  /\ DOMAIN o.v = DOMAIN e.v
  /\ \A k \in (DOMAIN e.v) \ {"url"} : o.v[k] = e.v[k]

\* C1: when additionalInterfaces of the input card is an array, every element
\* of the rewritten additionalInterfaces is an object whose transport is a
\* string that lower-cases to jsonrpc, grpc or http+json.
C1_TransportClosure ==
  (CardRewritten /\ InputIsArray) =>
    /\ "additionalInterfaces" \in DOMAIN cardOut.v
    /\ cardOut.v["additionalInterfaces"].t \in {"slice", "nilslice"}
    /\ \A i \in 1..Len(OutIfaces) : IsKept(OutIfaces[i])

C1_Witness ==
  /\ CardRewritten
  /\ InputIsArray
  /\ Len(OutIfaces) >= 1
  /\ \E i \in 1..Len(InIfaces) :
       /\ InIfaces[i].t = "map"
       /\ "transport" \in DOMAIN InIfaces[i].v
       /\ InIfaces[i].v["transport"] = GStr("http")

ProviderUntouched ==
  "provider" \in DOMAIN cardIn.v =>
    /\ "provider" \in DOMAIN cardOut.v
    /\ cardOut.v["provider"] = cardIn.v["provider"]

\* C2 as stated: after the rewrite the top-level url and the url of every
\* element of additionalInterfaces equal externalURL, and provider.url is the
\* input value.
C2_UrlClosure_AsStated ==
  CardRewritten =>
    /\ "url" \in DOMAIN cardOut.v => cardOut.v["url"] = GStr(ExternalURL)
    /\ InputIsArray =>
         \A i \in 1..Len(OutIfaces) :
           "url" \in DOMAIN OutIfaces[i].v =>
             OutIfaces[i].v["url"] = GStr(ExternalURL)
    /\ ProviderUntouched

\* C2 amended: after the rewrite every url that is a JSON string (top level
\* and in each element of the output additionalInterfaces) equals
\* externalURL; a url that is not a string is left as it was in the input;
\* provider (with its url) is identical to the input.
C2_UrlClosure ==
  CardRewritten =>
    /\ "url" \in DOMAIN cardIn.v =>
         /\ "url" \in DOMAIN cardOut.v
         /\ cardOut.v["url"] = IF cardIn.v["url"].t = "string"
                               THEN GStr(ExternalURL)
                               ELSE cardIn.v["url"]
    /\ InputIsArray =>
         \A j \in 1..Len(OutIfaces) :
           "url" \in DOMAIN OutIfaces[j].v =>
             LET before == InIfaces[NthKept(j)].v["url"]
             IN  OutIfaces[j].v["url"] = IF before.t = "string"
                                         THEN GStr(ExternalURL)
                                         ELSE before
    /\ ProviderUntouched

C2_Witness ==
  /\ CardRewritten
  /\ "url" \in DOMAIN cardIn.v
  /\ cardIn.v["url"].t = "string"
  /\ cardIn.v["url"] # GStr(ExternalURL)
  /\ "provider" \in DOMAIN cardIn.v
  /\ InputIsArray
  /\ \E j \in 1..Len(OutIfaces) :
       /\ "url" \in DOMAIN OutIfaces[j].v
       /\ OutIfaces[j].v["url"] = GStr(ExternalURL)
  /\ \E j \in 1..Len(OutIfaces) :
       /\ "url" \in DOMAIN OutIfaces[j].v
       /\ OutIfaces[j].v["url"].t = "float64"

C5_KeptSubsequence ==
  (CardRewritten /\ InputIsArray) =>
    /\ Len(OutIfaces) = Cardinality(KeptSet)
    /\ \A j \in 1..Len(OutIfaces) : SameButUrl(OutIfaces[j], InIfaces[NthKept(j)])

C5_Witness ==
  /\ CardRewritten
  /\ InputIsArray
  /\ Len(InIfaces) >= 2
  /\ Len(OutIfaces) = 2
  /\ OutIfaces[1] # OutIfaces[2]

(***************************************************************************)
(* Properties of the handlers (checked under Spec)                         *)
(***************************************************************************)
\* the agentcard-rw handler forwarded with the capturing writer and has
\* written its response
RwDone == pc = "done" /\ plugin = "agentcard-rw" /\ target = "rw"

CapturedJSON == Contains(down.ct, "application/json")

CapturedIsObject == Len(rw.body) = 1 /\ rw.body[1].t = "jobject"

CapturedHasArray ==
  /\ CapturedIsObject
  /\ "additionalInterfaces" \in DOMAIN rw.body[1].v
  /\ rw.body[1].v["additionalInterfaces"].t = "jarray"

\* C4 as stated: a card whose additionalInterfaces is an array, empty or not,
\* is emitted with additionalInterfaces an array (never null, never absent),
\* the empty array staying the empty array (request with a Host).
C4_EmptyArrayStaysArray ==
  (RwDone /\ req.host # "" /\ rw.statusCode = 200 /\ CapturedJSON /\ CapturedHasArray) =>
    /\ sink.status = 200
    /\ Len(sink.body) = 1
    /\ sink.body[1].t = "jobject"
    /\ "additionalInterfaces" \in DOMAIN sink.body[1].v
    /\ sink.body[1].v["additionalInterfaces"].t = "jarray"
    /\ rw.body[1].v["additionalInterfaces"].v = <<>> =>
         sink.body[1].v["additionalInterfaces"].v = <<>>

RwIntercepts ==
  /\ req.method = "GET"
  /\ HasSuffix(req.path, agentCardSuffix)
  /\ extractAgentPath(req.path) # ""

\* C6 as stated: a GET agent card request (here: one with an agent path) whose
\* Host is empty is answered with status 500 and the downstream handler is
\* never invoked for it.
C6_EmptyHostRejected ==
  (/\ plugin = "agentcard-rw"
   /\ req.method = "GET"
   /\ HasSuffix(req.path, agentCardSuffix)
   /\ extractAgentPath(req.path) # ""
   /\ req.host = "") =>
    /\ downCalls = 0
    /\ pc = "done" => sink.status = 500

\* C7 as stated: when the captured downstream status is not 200 the client
\* gets the downstream status (never 200) and the downstream body.
C7_NonOK_AsStated ==
  (RwDone /\ rw.statusCode # 200) =>
    /\ sink.status = rw.statusCode
    /\ sink.status # 200
    /\ sink.body = rw.body

\* C7 amended: when the captured downstream status is not 200 the client gets
\* the downstream status (never 200) and the fixed message "Backend service
\* returned an error" as body; the downstream body is not sent.
C7_NonOK ==
  (RwDone /\ rw.statusCode # 200) =>
    /\ sink.status = rw.statusCode
    /\ sink.status # 200
    /\ sink.body = <<TextChunk("Backend service returned an error\n")>>

C7_Witness ==
  /\ RwDone
  /\ rw.statusCode = 404
  /\ rw.body = <<TextChunk("not found")>>
  /\ sink.status = 404

\* C8: downstream status 200 with a captured Content-Type that does not
\* contain application/json: the client gets 415 and only the error message,
\* nothing of the downstream body.
C8_UnsupportedMediaType ==
  (RwDone /\ rw.statusCode = 200 /\ ~CapturedJSON) =>
    /\ sink.status = 415
    /\ sink.body = <<TextChunk("Expected application/json content type\n")>>

C8_Witness ==
  /\ RwDone
  /\ rw.statusCode = 200
  /\ down.ct = "text/html"
  /\ CapturedIsObject
  /\ sink.status = 415

\* C9 as stated: downstream status 200, JSON content type and a body that is
\* not a JSON object (malformed, empty, array, scalar or null): the client
\* gets status 500 (request with a Host).
C9_NotAnObject ==
  (RwDone /\ req.host # "" /\ rw.statusCode = 200 /\ CapturedJSON /\ ~CapturedIsObject) =>
    sink.status = 500

BridgeIntercepts ==
  \/ received.method = "POST" /\ received.path = "/chat/completions"
  \/ received.method = "GET" /\ received.path = "/models"

NotIntercepted ==
  \/ plugin = "agentcard-rw" /\ ~RwIntercepts
  \/ plugin = "openai-a2a" /\ ~BridgeIntercepts

\* C10: a request the plugin does not intercept is handed to the downstream
\* handler exactly once, with the real writer and the request as received,
\* and what reaches the client is what the downstream handler wrote.
C10_PassThrough ==
  NotIntercepted =>
    /\ pc = "received" => downCalls = 0
    /\ pc \in {"downstream", "done"} =>
         /\ downCalls = 1
         /\ target = "sink"
         /\ downReq = received
         /\ sink = down.resp
         /\ HeaderGet(header, "Content-Type") = down.ct

C10_Witness ==
  /\ pc = "done"
  /\ plugin = "agentcard-rw"
  /\ req.method = "GET"
  /\ req.path = "/.well-known/agent-card.json"
  /\ downCalls = 1
  /\ sink.status = 404
  /\ sink.body = <<TextChunk("not found")>>

(***************************************************************************)
(* Properties of the bridge (Spec for the handlers, SpecFn for the         *)
(* functions)                                                              *)
(***************************************************************************)
\* the request in flight was handed to the bridge as POST /chat/completions
ChatReceived ==
  /\ plugin = "openai-a2a"
  /\ received.method = "POST"
  /\ received.path = "/chat/completions"

BodyReadable == \A i \in 1..Len(received.body) : received.body[i] # Unreadable

\* the OpenAI request the received body decodes to
Decoded == UnmarshalOpenAIRequest(received.body)

ChatDecoded == ChatReceived /\ BodyReadable /\ Decoded.ok

StreamingErrorBody ==
  [t |-> "jobject",
   v |-> [error |->
            [t |-> "jobject",
             v |-> [message |-> [t |-> "jstring",
                                 v |-> "Streaming is not currently supported by the Agent Gateway"],
                    type |-> [t |-> "jstring", v |-> "invalid_request_error"],
                    code |-> [t |-> "jnull", v |-> 0]]]]]

\* C11: a POST /chat/completions whose body decodes with stream = true, with
\* any model and messages, is answered with status 400 and the streaming error
\* object as body, and the downstream handler is never invoked.
C11_StreamingRejected ==
  (ChatReceived /\ BodyReadable /\ LET d == Decoded IN d.ok /\ d.val.Stream) =>
    /\ downCalls = 0
    /\ pc = "done" =>
         /\ sink.status = 400
         /\ sink.body = <<StreamingErrorBody>>

C11_Witness ==
  /\ ChatDecoded
  /\ Decoded.val.Stream
  /\ Decoded.val.Model = "weather-agent"
  /\ Len(Decoded.val.Messages) = 1
  /\ Len(agents) = 1
  /\ pc = "done"
  /\ sink.status = 400

\* C12 as stated: a request to /chat/completions with a method other than
\* POST, and a request to /models with a method other than GET, is answered
\* with status 405 and is not forwarded to the downstream handler.
C12_MethodNotAllowed ==
  (/\ plugin = "openai-a2a"
   /\ \/ received.path = "/chat/completions" /\ received.method # "POST"
      \/ received.path = "/models" /\ received.method # "GET") =>
    /\ downCalls = 0
    /\ pc = "done" => sink.status = 405

ModelsReceived ==
  /\ plugin = "openai-a2a"
  /\ received.method = "GET"
  /\ received.path = "/models"

\* the listing entry of one registry entry
ModelEntry(agent) ==
  [t |-> "jobject",
   v |-> [id |-> [t |-> "jstring", v |-> agent.ModelID],
          object |-> [t |-> "jstring", v |-> "model"],
          created |-> [t |-> "jnumber",
                       v |-> <<agent.CreatedAt \div Half, agent.CreatedAt % Half>>],
          owned_by |-> [t |-> "jstring", v |-> agent.OwnedBy]]]

\* C13: GET /models is answered with status 200, object = "list" and a data
\* array with exactly one entry per registry entry, in registry order, each
\* with id = modelId, object = "model", created = createdAt and owned_by =
\* ownedBy (the empty array for an empty registry); the downstream handler is
\* not invoked.
C13_ModelsListing ==
  ModelsReceived =>
    /\ downCalls = 0
    /\ pc = "done" =>
         /\ sink.status = 200
         /\ Len(sink.body) = 1
         /\ sink.body[1].t = "jobject"
         /\ DOMAIN sink.body[1].v = {"object", "data"}
         /\ sink.body[1].v["object"] = [t |-> "jstring", v |-> "list"]
         /\ sink.body[1].v["data"].t = "jarray"
         /\ Len(sink.body[1].v["data"].v) = Len(agents)
         /\ \A i \in 1..Len(agents) :
              sink.body[1].v["data"].v[i] = ModelEntry(agents[i])

C13_Witness ==
  /\ ModelsReceived
  /\ pc = "done"
  /\ Len(agents) >= 3
  /\ agents[1].ModelID # agents[2].ModelID
  /\ Len(sink.body[1].v["data"].v) = Len(agents)

InvalidModelCharSet ==
  {"?", "#", "[", "]", "@", "!", "$", "&", "'", "(", ")", "*", "+", ",", ";", "="}

FnResolved == fnStage \in {"resolved", "transformed"}

\* the registry positions whose modelId equals the model
Matches == {i \in 1..Len(fnIn.agents) : fnIn.agents[i].ModelID = fnIn.model}

FirstMatch == CHOOSE i \in Matches : \A j \in Matches : i <= j

\* C14: resolveAgentBackend(model, registry) is invalid_format when model is
\* empty, contains ".." or one of ?#[]@!$&'()*+,;= ; otherwise the first
\* registry entry whose modelId equals model decides alone:
\* configuration_error when its url is empty or does not parse, else success
\* with ModelID = model and Path = "/" + model; otherwise not_found.
C14_Resolution ==
  FnResolved =>
    LET model == fnIn.model
        r == fnOut.resolved
    IN  IF \/ model = ""
           \/ \E i \in 1..(Len(model) - 1) : SubSeq(model, i, i + 1) = ".."
           \/ \E i \in 1..Len(model) : SubSeq(model, i, i) \in InvalidModelCharSet
        THEN ~r.ok /\ r.Type = "invalid_format"
        ELSE IF Matches # {}
        THEN IF \/ fnIn.agents[FirstMatch].URL = ""
                \/ urlParse(fnIn.agents[FirstMatch].URL).err
             THEN ~r.ok /\ r.Type = "configuration_error"
             ELSE /\ r.ok
                  /\ r.info.ModelID = model
                  /\ r.info.Path = "/" \o model
        ELSE ~r.ok /\ r.Type = "not_found"

C14_Witness ==
  /\ FnResolved
  /\ Cardinality(Matches) = 2
  /\ fnIn.agents[1].URL # ""
  /\ fnIn.agents[2].URL = ""
  /\ fnOut.resolved.ok
  /\ fnOut.resolved.info.Path = "/weather-agent"

\* the resolution of the decoded model against the handler's registry
Resolution == resolveAgentBackend(Decoded.val.Model, agents)

\* a well-formed non-streaming body with a non-empty model
Resolvable ==
  /\ ChatDecoded
  /\ ~Decoded.val.Stream
  /\ Decoded.val.Model # ""

ResolutionFails == Resolvable /\ ~Resolution.ok

GenericMessage(kind) ==
  CASE kind = "not_found"           -> "model not found"
    [] kind = "invalid_format"      -> "invalid model parameter format"
    [] kind = "configuration_error" -> "model is not available"

\* C15: for a POST /chat/completions with a well-formed non-streaming body
\* and a non-empty model (the handler then resolves the model), a resolution
\* failure is answered with 404 when its kind is not_found and with 400 when
\* it is invalid_format or configuration_error; the body is the generic
\* message of the kind alone, without the model string and without any
\* configured URL; the downstream handler is not invoked.
C15_ResolutionErrors ==
  /\ (pc # "received" /\ resolution = NoResolution) => ~Resolvable
  /\ resolution.Type # "" =>
       /\ Resolvable
       /\ downCalls = 0
       /\ pc = "done"
       /\ LET kind == resolution.Type
               text == GenericMessage(kind) \o "\n"
           IN  /\ sink.status = IF kind = "not_found" THEN 404 ELSE 400
               /\ sink.body = <<[t |-> "text", v |-> text]>>
               /\ ~Contains(text, openAIReq.Model)
               /\ \A i \in 1..Len(agents) :
                    agents[i].URL # "" => ~Contains(text, agents[i].URL)

C15_Witness ==
  /\ ResolutionFails
  /\ pc = "done"
  /\ resolution = Resolution
  /\ Resolution.Type = "configuration_error"
  /\ Decoded.val.Model = "bad-url-agent"
  /\ sink.status = 400

\* the bridge has forwarded the chat request in flight
ChatForwarded == ChatReceived /\ downCalls = 1 /\ target = "rw"

\* params.message.contextId of the body the downstream handler was given
ForwardedContextId ==
  downReq.body[1].v["params"].v["message"].v["contextId"]

\* C16 as stated: params.message.contextId of a forwarded chat request is
\* the X-Conversation-ID header when that is non-empty, else a freshly
\* generated non-empty identifier, and no two requests without the header get
\* the same identifier.
C16_ConversationId ==
  /\ ChatForwarded =>
       /\ ForwardedContextId.t = "jstring"
       /\ ForwardedContextId.v # ""
       /\ received.cid # "" => ForwardedContextId.v = received.cid
       /\ received.cid = "" =>
            /\ generated # <<>>
            /\ ForwardedContextId.v = generated[Len(generated)]
  /\ \A i, j \in 1..Len(generated) : i # j => generated[i] # generated[j]

\* the strings the A2A request holds
A2AStrings(r) ==
  {r.Jsonrpc, r.Method, r.Params.Message.Kind, r.Params.Message.MessageId,
   r.Params.Message.ContextId, r.Params.Message.Role}
    \cup {r.Params.Message.Parts[i].Kind : i \in 1..Len(r.Params.Message.Parts)}
    \cup {r.Params.Message.Parts[i].Text : i \in 1..Len(r.Params.Message.Parts)}

FnTransformed == fnStage = "transformed"

FnMessagesIn == fnIn.openAIReq.Messages

C18_EmptyMessages ==
  (ChatDecoded /\ Decoded.val.Messages = <<>>) =>
    /\ downCalls = 0
    /\ pc = "done" => sink.status = 400

\* C19 as stated: the request the downstream handler gets from the bridge has
\* path "/" + model, the serialized A2A request as body, Content-Type
\* application/json and a Content-Length equal to the size of the new body:
\* no length of the original body is left on it.
C19_ForwardedRequest ==
  ChatForwarded =>
    /\ downReq.path = "/" \o Decoded.val.Model
    /\ downReq.body = <<MarshalA2ARequest(a2aReq)>>
    /\ downReq.contentType = "application/json"
    /\ downReq.contentLength = BodyLen(downReq.body)
    /\ downReq.hdrContentLength \in {"", Itoa(BodyLen(downReq.body))}

\* the bridge has answered a forwarded request whose downstream status was not 200
BridgeNonOK ==
  /\ plugin = "openai-a2a"
  /\ target = "rw"
  /\ pc = "done"
  /\ rw.statusCode # 200

\* C20 as stated: when the captured downstream status is not 200 the client
\* gets that status, the downstream body, and the downstream headers with the
\* same values, each as often as downstream set it (here: at most once).
C20_NonOKVerbatim ==
  BridgeNonOK =>
    /\ sink.status = rw.statusCode
    /\ sink.body = rw.body
    /\ header["Content-Type"] = (IF down.hdrSet THEN <<down.ct>> ELSE <<>>)
    /\ \A h \in HeaderNames : Len(header[h]) <= 1

(***************************************************************************)
(* Properties of transformA2AToOpenAI (checked under SpecResp)             *)
(***************************************************************************)
FnAnswered == fnStage = "answered"

\* the text a part carries when its kind is "text", else nothing
TextOfPart(part) ==
  IF part.t = "TextPart" THEN part.v.Text
  ELSE IF part.v["kind"] = GStr("text") THEN part.v["text"].v
  ELSE ""

RECURSIVE TextOfParts(_)
\* the texts of the text parts, in part order
TextOfParts(parts) ==
  IF parts = <<>> THEN ""
  ELSE TextOfPart(Head(parts)) \o TextOfParts(Tail(parts))

RECURSIVE TextOfArtifacts(_)
\* the texts of the text parts, in artifact order then part order
TextOfArtifacts(artifacts) ==
  IF artifacts = <<>> THEN ""
  ELSE TextOfParts(Head(artifacts).Parts) \o TextOfArtifacts(Tail(artifacts))

FnContent == fnOut.Choices[1].Message.Content

\* C21 as stated: with non-empty artifacts the content is the concatenation,
\* in artifact order then part order, of the text of every text part, the
\* other parts skipped, and the history is not consulted, also when the
\* artifacts hold no text part.
C21_ArtifactsOnly ==
  (FnAnswered /\ fnIn.a2aResp.Result.Artifacts # <<>>) =>
    FnContent = TextOfArtifacts(fnIn.a2aResp.Result.Artifacts)

\* the positions of the agent messages of the history
AgentPositions ==
  {i \in 1..Len(fnIn.a2aResp.Result.History) :
     fnIn.a2aResp.Result.History[i].Role = "agent"}

\* C22 as stated: with empty artifacts the content is the concatenation of
\* the text parts of the last history message whose role is "agent", and of
\* no other message, also when that message has no text part; it is empty
\* when the history has no agent message.
C22_LastAgentMessage ==
  (FnAnswered /\ fnIn.a2aResp.Result.Artifacts = <<>>) =>
    IF AgentPositions = {} THEN FnContent = ""
    ELSE LET last == CHOOSE i \in AgentPositions : \A j \in AgentPositions : j <= i
         IN  FnContent = TextOfParts(fnIn.a2aResp.Result.History[last].Parts)

(***************************************************************************)
(* Properties of the whole exchange (checked under Spec)                   *)
(***************************************************************************)
ChatDone == ChatForwarded /\ pc = "done"

\* the downstream handler answered 200 with an echo of the forwarded message
EchoAnswered ==
  /\ ChatDone
  /\ rw.statusCode = 200
  /\ Len(rw.body) = 1
  /\ rw.body[1] \in EchoChunks(downReq)

\* the JSON value the client was sent as its only write
ClientDoc == sink.body[1]

\* C23 as stated: a request with non-empty messages and a resolvable model
\* whose backend answers 200 with the text of the A2A message it received
\* as a single text artifact gets status 200, object "chat.completion", the
\* model of the request and exactly one choice, with index 0, role
\* "assistant", finish_reason "stop" and the content of the last input
\* message.
C23_RoundTrip ==
  EchoAnswered =>
    /\ sink.status = 200
    /\ Len(sink.body) = 1
    /\ ClientDoc.t = "jobject"
    /\ ClientDoc.v["object"] = JStr("chat.completion")
    /\ ClientDoc.v["model"] = JStr(openAIReq.Model)
    /\ ClientDoc.v["choices"] =
         JArr(<<JObj([index |-> JInt(0),
                      message |-> JObj([role |-> JStr("assistant"),
                                        content |-> JStr(openAIReq.Messages[Len(openAIReq.Messages)].Content)]),
                      finish_reason |-> JStr("stop")])>>)

\* the downstream handler answered 200 with a body that is no A2A envelope
UndecodableAnswer ==
  /\ ChatDone
  /\ rw.statusCode = 200
  /\ ~UnmarshalA2AResponse(rw.body).ok

\* some write to the client is a JSON object whose object is "chat.completion"
CompletionEmitted ==
  \E i \in 1..Len(sink.body) :
    /\ sink.body[i].t = "jobject"
    /\ "object" \in DOMAIN sink.body[i].v
    /\ sink.body[i].v["object"] = JStr("chat.completion")

\* C24: when the downstream status is 200 and the captured body cannot be
\* decoded as an A2A envelope, the client gets status 500 and no
\* chat.completion body is written (with status 200 or any other).
C24_UndecodableIs500 ==
  UndecodableAnswer => (sink.status = 500 /\ ~CompletionEmitted)

\* an answer that is no JSON has been answered
C24_Witness ==
  /\ UndecodableAnswer
  /\ rw.body = <<TextChunk("{\"invalid\": json}")>>
  /\ sink.wroteHeader

(***************************************************************************)
(* Properties of the external URL (checked under Spec)                     *)
(***************************************************************************)
\* the rewriter forwarded an owned agent-card request with its capturing writer
RwForwarded ==
  /\ plugin = "agentcard-rw"
  /\ received.method = "GET"
  /\ HasSuffix(received.path, "/.well-known/agent-card.json")
  /\ target = "rw"

\* s without one trailing slash
TrimOneSlash(s) ==
  IF s # "" /\ SubSeq(s, Len(s), Len(s)) = "/" THEN SubSeq(s, 1, Len(s) - 1) ELSE s

\* the part of path before the first occurrence of the well-known suffix
BeforeFirstSuffix(path) ==
  LET suffix == "/.well-known/agent-card.json"
      at(i) == SubSeq(path, i, i + Len(suffix) - 1) = suffix
      first == CHOOSE i \in 1..Len(path) : at(i) /\ \A j \in 1..(i - 1) : ~at(j)
  IN  SubSeq(path, 1, first - 1)

\* scheme + "://" + Host and the agent path, each without one trailing slash
ExpectedExternalURL ==
  LET scheme == IF received.proto # "" THEN received.proto ELSE "http"
  IN  TrimOneSlash(scheme \o "://" \o received.host)
        \o TrimOneSlash(BeforeFirstSuffix(received.path))

\* a card with a string url was rewritten and written to the client
CardServed ==
  /\ RwForwarded
  /\ pc = "done"
  /\ rw.statusCode = 200
  /\ sink.status = 200
  /\ Len(rw.body) = 1
  /\ rw.body[1].t = "jobject"
  /\ "url" \in DOMAIN rw.body[1].v
  /\ rw.body[1].v["url"].t = "jstring"
  /\ Len(sink.body) = 1

\* C25: for every owned agent-card request the external URL the handler
\* builds, and writes as the url of the rewritten card, is scheme + "://" +
\* Host + agentPath with one trailing slash trimmed from each half; scheme
\* is X-Forwarded-Proto when non-empty and "http" otherwise, Host is the
\* request Host with its port, agentPath the part of the path before the
\* first occurrence of /.well-known/agent-card.json.
C25_ExternalURL ==
  /\ RwForwarded => constructExternalURL(gatewayURL, agentPath) = ExpectedExternalURL
  /\ CardServed => sink.body[1].v["url"] = JStr(ExpectedExternalURL)

\* a card was rewritten for a forwarded scheme, a Host with a port and an
\* agent path that ends with a slash
C25_Witness ==
  /\ CardServed
  /\ received.proto = "https"
  /\ received.host = "gateway.agentic-layer.ai:8443"
  /\ received.path = "/agents/weather//.well-known/agent-card.json"
  /\ sink.body[1].v["url"] = JStr("https://gateway.agentic-layer.ai:8443/agents/weather")

(***************************************************************************)
(* Properties of the configuration load (checked under SpecConfig)         *)
(***************************************************************************)
Registered == fnStage = "registered"

\* no two entries with the same model id; every url is non-empty and parses
\* with a scheme and an authority
ValidRegistry(registry) ==
  /\ \A i, j \in 1..Len(registry) :
       registry[i].ModelID = registry[j].ModelID => i = j
  /\ \A i \in 1..Len(registry) :
       /\ registry[i].URL # ""
       /\ ~urlParse(registry[i].URL).err
       /\ urlParse(registry[i].URL).Scheme # ""
       /\ urlParse(registry[i].URL).Host # ""

\* C26 as stated: after a configuration load that succeeds the registry
\* holds no two entries with the same modelId and no entry whose url is
\* empty or lacks a scheme and authority; a configuration violating this
\* makes the registration fail instead of producing a handler.
C26_RegistryValid ==
  (Registered /\ fnOut.handler) => ValidRegistry(fnOut.agents)

(***************************************************************************)
(* Properties of the capture (checked under Spec)                          *)
(***************************************************************************)
\* the request was handed to the downstream handler with a capturing writer
Intercepted == target = "rw"

\* C27: on an intercepted request, in both interceptors, no status line and
\* no body byte reaches the real sink while the downstream handler runs;
\* every write to the real sink is a step taken after the downstream handler
\* returned; and the captured status is 200 when the downstream handler
\* returns without a call of WriteHeader.
C27_CaptureOrdering ==
  [][ /\ (Intercepted /\ pc = "downstream") =>
           (sink = NewSink /\ sink' = NewSink)
      /\ (Intercepted /\ sink' # sink) => pc = "captured"
      /\ (Intercepted /\ pc = "downstream" /\ pc' = "captured" /\ down.whCalls = 0) =>
           rw'.statusCode = 200 ]_vars

\* the downstream handler wrote a body without WriteHeader into the capturing
\* writer of the rewriter, and the client was answered after it returned
C27_Witness ==
  /\ Intercepted
  /\ plugin = "agentcard-rw"
  /\ pc = "done"
  /\ down.whCalls = 0
  /\ down.resp.body # <<>>
  /\ rw.statusCode = 200
  /\ sink.wroteHeader

(***************************************************************************)
(* Properties of concurrent requests (checked under SpecConc)              *)
(***************************************************************************)
ListingDone(p) == fnOut[p].stage = "done" /\ fnOut[p].listing # JNull

ResolutionDone(p) == fnOut[p].stage = "done" /\ fnOut[p].listing = JNull

\* C28: under every interleaving of concurrently handled /models and
\* /chat/completions requests the registry stays as it was loaded, every
\* GET /models returns the same listing, and every resolution of a given
\* model yields the same (ModelID, Path, URL) triple or the same error kind.
C28_RegistryImmutable ==
  /\ agents = fnIn.Agents
  /\ \A p, q \in 1..MaxProcs :
       (ListingDone(p) /\ ListingDone(q)) => fnOut[p].listing = fnOut[q].listing
  /\ \A p \in 1..MaxProcs :
       ListingDone(p) => fnOut[p].listing = MarshalModelsResponse(fnIn.Agents)
  /\ \A p, q \in 1..MaxProcs :
       (ResolutionDone(p) /\ ResolutionDone(q) /\ fnOut[p].model = fnOut[q].model) =>
         /\ fnOut[p].result.ok = fnOut[q].result.ok
         /\ fnOut[p].result.info = fnOut[q].result.info
         /\ fnOut[p].result.Type = fnOut[q].result.Type
  /\ \A p \in 1..MaxProcs :
       ResolutionDone(p) =>
         fnOut[p].result = resolveAgentBackend(fnOut[p].model, fnIn.Agents)

\* a listing and a successful resolution were both completed on the registry
\* of five entries
C28_Witness ==
  /\ fnStage = "concurrent"
  /\ Len(agents) = 5
  /\ \E p, q \in 1..MaxProcs :
       /\ ListingDone(p)
       /\ ResolutionDone(q)
       /\ fnOut[q].result.ok
       /\ fnOut[q].result.info.ModelID = "weather-agent"

(***************************************************************************)
(* Properties of the forwarding decision (checked under Spec)              *)
(***************************************************************************)
\* every validation of the chat handler passes on the received request
ChatValid ==
  /\ BodyReadable
  /\ Decoded.ok
  /\ ~Decoded.val.Stream
  /\ Decoded.val.Model # ""
  /\ Decoded.val.Messages # <<>>
  /\ Resolution.ok

\* the chat handler has acted on a request that fails a validation
ChatRejected == ChatReceived /\ pc # "received" /\ ~ChatValid

ListedWithURL(id) ==
  \E i \in 1..Len(agents) :
    /\ agents[i].ModelID = id
    /\ agents[i].URL # ""
    /\ ~urlParse(agents[i].URL).err

\* the chat handler has acted on a non-streaming request with messages whose
\* model is such an id
ListedModelRequested ==
  /\ ChatReceived
  /\ pc \notin {"idle", "received"}
  /\ BodyReadable
  /\ Decoded.ok
  /\ ~Decoded.val.Stream
  /\ Decoded.val.Messages # <<>>
  /\ ListedWithURL(Decoded.val.Model)

\* C30 as stated: every model id that GET /models returns for an entry with
\* a non-empty, parseable url is resolvable: a non-streaming POST
\* /chat/completions with that model and non-empty messages is forwarded to
\* the downstream handler at path "/" + id and not rejected with 400 or 404.
C30_ListedIsRoutable ==
  ListedModelRequested =>
    /\ downCalls = 1
    /\ target = "rw"
    /\ downReq.path = "/" \o Decoded.val.Model

====
